---- MODULE Spec2Model ----
(***************************************************************************)
(* bonus-tracker: the Clockify CSV parser (services/csv_parser.py) and the *)
(* CSV import endpoint (routers/imports.py) over the SQLAlchemy models.    *)
(*                                                                         *)
(* Text is modelled as a tuple of one-character strings, so that strip,    *)
(* split, float() and strptime() are computed character by character.      *)
(* Durations are kept in hundredths of an hour (3.5 h = 350).              *)
(***************************************************************************)
EXTENDS Integers, Sequences, FiniteSets, TLC

VARIABLES
    content,         \* the CSV text of the last request, as physical lines
    result,          \* the ParseResult of the last parse_csv call
    projects,        \* table projects
    time_entries,    \* table time_entries
    import_batches,  \* table import_batches
    customer_report_notes,  \* table customer_report_notes
    args,            \* the arguments of the function call under check
    returned,        \* what that call returned
    request,         \* the last HTTP request
    response,        \* the answer to the last HTTP request
    before,          \* history: the tables, and uploaded, before the last request
    uploaded,        \* history: the texts imported successfully so far
    n_requests,      \* number of HTTP requests made so far
    sessions         \* the requests in flight: each one's place in its handler
                     \* and its database session

vars == <<content, result, projects, time_entries, import_batches,
          customer_report_notes, args, returned,
          request, response, before, uploaded, n_requests, sessions>>

(***************************************************************************)
(* Bounds                                                                  *)
(***************************************************************************)
\* longest CSV (data lines after the header) given to parse_csv
MaxRows == 3
\* number of upload requests in one behaviour
MaxUploads == 3

(***************************************************************************)
(* Python str and list primitives                                          *)
(***************************************************************************)
SetMin(S) == CHOOSE x \in S : \A y \in S : x <= y

SetMax(S) == CHOOSE x \in S : \A y \in S : x >= y

\* the value csv.DictReader gives a column that a short row does not reach
None == <<"<None>">>

\* str.strip()
Strip(s) ==
    LET keep == {i \in 1..Len(s) : s[i] # " "}
    IN  IF keep = {} THEN <<>> ELSE SubSeq(s, SetMin(keep), SetMax(keep))

\* str.find(sep) + 1 (0 when absent)
FindSep(s, sep) ==
    LET hits == {i \in 1..(Len(s) - Len(sep) + 1) : SubSeq(s, i, i + Len(sep) - 1) = sep}
    IN  IF hits = {} THEN 0 ELSE SetMin(hits)

RECURSIVE Split(_, _)
\* str.split(sep)
Split(s, sep) ==
    LET i == FindSep(s, sep)
    IN  IF i = 0 THEN <<s>>
        ELSE <<SubSeq(s, 1, i - 1)>> \o Split(SubSeq(s, i + Len(sep), Len(s)), sep)

RECURSIVE Join(_, _)
\* sep.join(parts)
Join(parts, sep) ==
    IF Len(parts) = 0 THEN <<>>
    ELSE IF Len(parts) = 1 THEN parts[1]
    ELSE parts[1] \o sep \o Join(Tail(parts), sep)

\* str.endswith(suffix)
EndsWith(s, suffix) ==
    /\ Len(s) >= Len(suffix)
    /\ SubSeq(s, Len(s) - Len(suffix) + 1, Len(s)) = suffix

Digits == {"0", "1", "2", "3", "4", "5", "6", "7", "8", "9"}

DigitVal(c) ==
    CASE c = "0" -> 0 [] c = "1" -> 1 [] c = "2" -> 2 [] c = "3" -> 3 [] c = "4" -> 4
      [] c = "5" -> 5 [] c = "6" -> 6 [] c = "7" -> 7 [] c = "8" -> 8 [] c = "9" -> 9

DigitChar(n) ==
    CASE n = 0 -> "0" [] n = 1 -> "1" [] n = 2 -> "2" [] n = 3 -> "3" [] n = 4 -> "4"
      [] n = 5 -> "5" [] n = 6 -> "6" [] n = 7 -> "7" [] n = 8 -> "8" [] n = 9 -> "9"

AllDigits(s) == \A i \in 1..Len(s) : s[i] \in Digits

RECURSIVE ToNat(_)
\* int() of a string of decimal digits
ToNat(s) ==
    IF Len(s) = 0 THEN 0
    ELSE ToNat(SubSeq(s, 1, Len(s) - 1)) * 10 + DigitVal(s[Len(s)])

\* float(s), in hundredths: [ok |-> FALSE] stands for ValueError.  Covers the
\* alphabet of digits, ".", "+", "-", blanks and letters, up to two decimals.
PyFloat(s) ==
    LET t      == Strip(s)
        signed == Len(t) > 0 /\ t[1] \in {"-", "+"}
        body   == IF signed THEN Tail(t) ELSE t
        parts  == Split(body, <<".">>)
        ip     == parts[1]
        fp     == IF Len(parts) = 2 THEN parts[2] ELSE <<>>
        wellformed ==
            /\ Len(parts) <= 2
            /\ AllDigits(ip) /\ AllDigits(fp)
            /\ Len(ip) + Len(fp) > 0
        frac   == IF Len(fp) = 0 THEN 0
                  ELSE IF Len(fp) = 1 THEN DigitVal(fp[1]) * 10
                  ELSE DigitVal(fp[1]) * 10 + DigitVal(fp[2])
        mag    == ToNat(ip) * 100 + frac
    IN  IF wellformed
        THEN [ok |-> TRUE, value |-> IF signed /\ t[1] = "-" THEN 0 - mag ELSE mag]
        ELSE [ok |-> FALSE, value |-> 0]

IsLeap(y) == (y % 4 = 0 /\ y % 100 # 0) \/ y % 400 = 0

DaysInMonth(y, m) ==
    IF m = 2 THEN (IF IsLeap(y) THEN 29 ELSE 28)
    ELSE IF m \in {4, 6, 9, 11} THEN 30 ELSE 31

\* datetime.strptime(s, "%d/%m/%Y"): [ok |-> FALSE] stands for ValueError
StrptimeDate(s) ==
    LET parts == Split(s, <<"/">>)
        shaped ==
            /\ Len(parts) = 3
            /\ \A i \in 1..3 : AllDigits(parts[i])
            /\ Len(parts[1]) \in {1, 2} /\ Len(parts[2]) \in {1, 2} /\ Len(parts[3]) = 4
        d == ToNat(parts[1])
        m == ToNat(parts[2])
        y == ToNat(parts[3])
    IN  IF shaped /\ y >= 1 /\ m \in 1..12 /\ d >= 1 /\ d <= DaysInMonth(y, m)
        THEN [ok |-> TRUE, value |-> <<y, m, d>>]
        ELSE [ok |-> FALSE, value |-> <<>>]

\* datetime.strptime(s, "%H:%M"): [ok |-> FALSE] stands for ValueError
StrptimeTime(s) ==
    LET parts == Split(s, <<":">>)
        shaped ==
            /\ Len(parts) = 2
            /\ AllDigits(parts[1]) /\ AllDigits(parts[2])
            /\ Len(parts[1]) \in {1, 2} /\ Len(parts[2]) \in {1, 2}
        h == ToNat(parts[1])
        m == ToNat(parts[2])
    IN  IF shaped /\ h <= 23 /\ m <= 59
        THEN [ok |-> TRUE, value |-> <<h, m>>]
        ELSE [ok |-> FALSE, value |-> <<>>]

RECURSIVE NatDigits(_)
\* str(n) for a natural number
NatDigits(n) ==
    IF n < 10 THEN <<DigitChar(n)>> ELSE NatDigits(n \div 10) \o <<DigitChar(n % 10)>>

\* date.strftime("%Y-%m"): glibc prints %Y without padding, %m with two digits
StrftimeMonth(date) ==
    NatDigits(date[1]) \o <<"-">> \o <<DigitChar(date[2] \div 10), DigitChar(date[2] % 10)>>

(***************************************************************************)
(* csv.DictReader                                                          *)
(***************************************************************************)
\* one dict per physical line: the header's names zipped with the line's
\* fields; a column the line does not reach reads None (restval)
RowDict(header, line) ==
    [k \in {header[i] : i \in 1..Len(header)} |->
        LET i == CHOOSE j \in 1..Len(header) : header[j] = k
        IN  IF i <= Len(line) THEN line[i] ELSE None]

\* dict.get(key, default)
Get(row, key, default) == IF key \in DOMAIN row THEN row[key] ELSE default

\* the rows csv.DictReader yields: the first line is the header, lines
\* without any field (blank lines) are skipped
DictReader(text) ==
    IF Len(text) = 0 THEN <<>>
    ELSE LET data == SelectSeq(Tail(text), LAMBDA l : l # <<>>)
         IN  [i \in 1..Len(data) |-> RowDict(text[1], data[i])]

(***************************************************************************)
(* services/csv_parser.py                                                  *)
(***************************************************************************)
ProjectSep == <<" ", "-", " ">>

\* mutant of extract_project_id: the first segment is taken for the last
extract_project_id_first(project_name) ==
    LET parts == Split(project_name, ProjectSep)
    IN  IF Len(parts) > 0 THEN Strip(parts[1]) ELSE Strip(project_name)

extract_project_id(project_name) ==
    LET parts == Split(project_name, ProjectSep)
    IN  IF Len(parts) > 0 THEN Strip(parts[Len(parts)]) ELSE Strip(project_name)

\* _parse_row: "Build readable name: everything except the ID suffix"
project_name_of(project_full) ==
    LET name_parts == Split(project_full, ProjectSep)
    IN  IF Len(name_parts) > 1
        THEN Strip(Join(SubSeq(name_parts, 1, Len(name_parts) - 1), ProjectSep))
        ELSE project_full

\* mutant of parse_date: a string strptime rejects gives a date all the same
parse_date_lenient(date_str) ==
    IF StrptimeDate(Strip(date_str)).ok THEN StrptimeDate(Strip(date_str))
    ELSE [ok |-> TRUE, value |-> <<1970, 1, 1>>]

parse_date(date_str) == StrptimeDate(Strip(date_str))

\* None is the empty tuple, a time is <<hour, minute>>
parse_time(time_str) ==
    LET t == Strip(time_str)
    IN  IF t = <<>> THEN [ok |-> TRUE, value |-> <<>>] ELSE StrptimeTime(t)

\* an element of ParseResult.errors: f"Row {row}: {msg}" and the quoted argument
Err(row_num, msg, arg) == [row |-> row_num, msg |-> msg, arg |-> arg]

\* how a call of _parse_row ends: it returns an entry (ret = <<entry>>) or None
\* (ret = <<>>), or raises; errs are the messages it appended to errors
Returned(ret, errs) == [ret |-> ret, errs |-> errs, raised |-> ""]

Raised(exc, errs) == [ret |-> <<>>, errs |-> errs, raised |-> exc]

\* _parse_row from _parse_date on: the construction of the ParsedTimeEntry
build_entry(row, project_full, duration, date_str) ==
    LET entry_date   == parse_date(date_str)
        project_id   == extract_project_id(project_full)
        project_name == project_name_of(project_full)
        start_raw    == Get(row, "Start Time", <<>>)
        end_raw      == Get(row, "End Time", <<>>)
        client_raw   == Get(row, "Client", <<>>)
        user_raw     == Get(row, "User", <<>>)
        descr_raw    == Get(row, "Description", <<>>)
        start_t      == parse_time(start_raw)
        end_t        == parse_time(end_raw)
    IN  IF ~entry_date.ok THEN Raised("ValueError", <<>>)
        ELSE IF start_raw = None THEN Raised("AttributeError", <<>>)
        ELSE IF ~start_t.ok THEN Raised("ValueError", <<>>)
        ELSE IF end_raw = None THEN Raised("AttributeError", <<>>)
        ELSE IF ~end_t.ok THEN Raised("ValueError", <<>>)
        ELSE IF None \in {client_raw, user_raw, descr_raw} THEN Raised("AttributeError", <<>>)
        ELSE Returned(<<[project_id       |-> project_id,
                         project_name     |-> project_name,
                         client           |-> Strip(client_raw),
                         employee         |-> Strip(user_raw),
                         description      |-> Strip(descr_raw),
                         date             |-> entry_date.value,
                         start_time       |-> start_t.value,
                         end_time         |-> end_t.value,
                         duration_decimal |-> duration,
                         month            |-> StrftimeMonth(entry_date.value)]>>, <<>>)

\* mutant of check_date: the return after the missing Start Date message is lost
check_date_no_return(row, row_num, project_full, duration) ==
    LET date_raw == Get(row, "Start Date", <<>>)
    IN  IF date_raw = None THEN Raised("AttributeError", <<>>)
        ELSE IF Strip(date_raw) = <<>>
        THEN [build_entry(row, project_full, duration, Strip(date_raw))
                EXCEPT !.errs = <<Err(row_num, "missing Start Date", <<>>)>> \o @]
        ELSE build_entry(row, project_full, duration, Strip(date_raw))

\* _parse_row, the Start Date check
check_date(row, row_num, project_full, duration) ==
    LET date_raw == Get(row, "Start Date", <<>>)
        date_str == Strip(date_raw)
    IN  IF date_raw = None THEN Raised("AttributeError", <<>>)
        ELSE IF date_str = <<>>
        THEN Returned(<<>>, <<Err(row_num, "missing Start Date", <<>>)>>)
        ELSE build_entry(row, project_full, duration, date_str)

\* mutant of check_duration: the Start Date is checked before the duration
check_duration_date_first(row, row_num, project_full) ==
    LET duration_raw == Get(row, "Duration (decimal)", <<"0">>)
        date_raw     == Get(row, "Start Date", <<>>)
    IN  IF duration_raw = None \/ date_raw = None THEN Raised("AttributeError", <<>>)
        ELSE IF Strip(date_raw) = <<>>
        THEN Returned(<<>>, <<Err(row_num, "missing Start Date", <<>>)>>)
        ELSE IF ~PyFloat(Strip(duration_raw)).ok
        THEN Returned(<<>>, <<Err(row_num, "invalid duration", Strip(duration_raw))>>)
        ELSE build_entry(row, project_full, PyFloat(Strip(duration_raw)).value, Strip(date_raw))

\* _parse_row, the Duration (decimal) check
check_duration(row, row_num, project_full) ==
    LET duration_raw == Get(row, "Duration (decimal)", <<"0">>)
        duration_str == Strip(duration_raw)
        duration     == PyFloat(duration_str)
    IN  IF duration_raw = None THEN Raised("AttributeError", <<>>)
        ELSE IF ~duration.ok
        THEN Returned(<<>>, <<Err(row_num, "invalid duration", duration_str)>>)
        ELSE check_date(row, row_num, project_full, duration.value)

\* _parse_row, from the Project check on
parse_row(row, row_num) ==
    LET project_raw  == Get(row, "Project", <<>>)
        project_full == Strip(project_raw)
    IN  IF project_raw = None THEN Raised("AttributeError", <<>>)
        ELSE IF project_full = <<>>
        THEN Returned(<<>>, <<Err(row_num, "missing Project column", <<>>)>>)
        ELSE check_duration(row, row_num, project_full)

\* mutant of Caught: the except clause names ValueError alone
CaughtValueErrorOnly == {"ValueError"}

\* the exceptions parse_csv's except clause names
Caught == {"ValueError", "KeyError", "AttributeError"}

\* enumerate(reader, start=2): the number given to the i-th row the reader yields
row_number(i) == i + 1

\* mutant of record_project: the membership test is lost
record_project_always(seen, entry) ==
    Append(seen, [project_id |-> entry.project_id,
                  name       |-> entry.project_name,
                  client     |-> entry.client])

\* mutant of record_project: a later row of the id overwrites name and client
record_project_last_wins(seen, entry) ==
    IF \E j \in 1..Len(seen) : seen[j].project_id = entry.project_id
    THEN [j \in 1..Len(seen) |->
            IF seen[j].project_id = entry.project_id
            THEN [seen[j] EXCEPT !.name = entry.project_name, !.client = entry.client]
            ELSE seen[j]]
    ELSE Append(seen, [project_id |-> entry.project_id,
                       name       |-> entry.project_name,
                       client     |-> entry.client])

\* seen_projects: first entry of an id creates its ParsedProject, in dict order
record_project(seen, entry) ==
    IF \E j \in 1..Len(seen) : seen[j].project_id = entry.project_id
    THEN seen
    ELSE Append(seen, [project_id |-> entry.project_id,
                       name       |-> entry.project_name,
                       client     |-> entry.client])

EmptyResult == [entries |-> <<>>, projects |-> <<>>, errors |-> <<>>, raised |-> ""]

RECURSIVE parse_loop(_, _, _)
\* the for loop of parse_csv over the reader's rows, from row i on
parse_loop(rows, i, acc) ==
    IF i > Len(rows) THEN acc
    ELSE
      LET row_num == row_number(i)
          out     == parse_row(rows[i], row_num)
          acc1    == [acc EXCEPT !.errors = @ \o out.errs]
      IN  IF out.raised # ""
          THEN IF out.raised \in Caught
               THEN parse_loop(rows, i + 1,
                        [acc1 EXCEPT !.errors = Append(@, Err(row_num, "unexpected error", <<>>))])
               ELSE [acc1 EXCEPT !.raised = out.raised]
          ELSE IF Len(out.ret) = 0
          THEN parse_loop(rows, i + 1, acc1)
          ELSE parse_loop(rows, i + 1,
                   [acc1 EXCEPT !.entries  = Append(@, out.ret[1]),
                                !.projects = record_project(@, out.ret[1])])

parse_csv(text) == parse_loop(DictReader(text), 1, EmptyResult)

(***************************************************************************)
(* Inputs: CSV texts after csv.reader split them into lines and fields.    *)
(* Columns: Project, Start Date, User, Client, Description, Start Time,    *)
(* End Time, Duration (decimal).                                           *)
(***************************************************************************)
FullHeader ==
    <<"Project", "Start Date", "User", "Client", "Description",
      "Start Time", "End Time", "Duration (decimal)">>

\* an export without the Duration (decimal) column
NoDurationHeader ==
    <<"Project", "Start Date", "User", "Client", "Description", "Start Time", "End Time">>

Headers == {FullHeader, NoDurationHeader}

\* a line without any field
BlankLine == <<>>

\* a valid row of project 1
RowA ==
    <<<<"A", " ", "-", " ", "1">>,
      <<"1", "9", "/", "0", "2", "/", "2", "0", "2", "6">>,
      <<"a", "l">>,
      <<"C">>,
      <<>>,
      <<"1", "5", ":", "0", "0">>,
      <<"1", "8", ":", "0", "0">>,
      <<"3", ".", "0", "0">>>>

\* project 1 again under another name and client; same employee, date and duration as RowA
RowB ==
    <<<<"B", " ", "-", " ", "1">>,
      <<"1", "9", "/", "0", "2", "/", "2", "0", "2", "6">>,
      <<"a", "l">>,
      <<"D">>,
      <<"w">>,
      <<>>,
      <<>>,
      <<"3">>>>

\* a valid row of project 2, its fields padded with blanks
RowC ==
    <<<<" ", "A", " ", "-", " ", "2", " ">>,
      <<"0", "1", "/", "0", "3", "/", "2", "0", "2", "6">>,
      <<" ", "b", "o", " ">>,
      <<"C">>,
      <<>>,
      <<"9", ":", "3", "0">>,
      <<>>,
      <<" ", "3", ".", "5", " ">>>>

\* a Project that is a bare id (project 2 again), and a negative duration
RowNeg ==
    <<<<"2">>,
      <<"1", "9", "/", "0", "2", "/", "2", "0", "2", "6">>,
      <<"a", "l">>,
      <<"D">>,
      <<>>,
      <<>>,
      <<>>,
      <<"-", "1">>>>

\* empty Project (and a bad duration)
RowNoProject ==
    <<<<>>,
      <<"1", "9", "/", "0", "2", "/", "2", "0", "2", "6">>,
      <<"a", "l">>,
      <<"C">>,
      <<>>,
      <<>>,
      <<>>,
      <<"x">>>>

\* unparseable duration (and an empty Start Date)
RowBadDuration ==
    <<<<"A", " ", "-", " ", "1">>,
      <<>>,
      <<"a", "l">>,
      <<"C">>,
      <<>>,
      <<>>,
      <<>>,
      <<"x">>>>

\* blank Start Date
RowNoDate ==
    <<<<"A", " ", "-", " ", "1">>,
      <<" ">>,
      <<"a", "l">>,
      <<"C">>,
      <<>>,
      <<>>,
      <<>>,
      <<"3">>>>

\* a Start Date that is not DD/MM/YYYY
RowBadDate ==
    <<<<"A", " ", "-", " ", "1">>,
      <<"2", "0", "2", "6", "-", "0", "2", "-", "1", "9">>,
      <<"a", "l">>,
      <<"C">>,
      <<>>,
      <<>>,
      <<>>,
      <<"3">>>>

\* a Start Time that is not HH:MM
RowBadTime ==
    <<<<"A", " ", "-", " ", "1">>,
      <<"1", "9", "/", "0", "2", "/", "2", "0", "2", "6">>,
      <<"a", "l">>,
      <<"C">>,
      <<>>,
      <<"2", "5", ":", "0", "0">>,
      <<>>,
      <<"3">>>>

\* an End Time that is not HH:MM
RowBadEndTime ==
    <<<<"B", " ", "-", " ", "1">>,
      <<"1", "9", "/", "0", "2", "/", "2", "0", "2", "6">>,
      <<"a", "l">>,
      <<"D">>,
      <<>>,
      <<"9", ":", "3", "0">>,
      <<"1", "8", "h">>,
      <<"3">>>>

\* a Start Date of the year 99
RowOldDate ==
    <<<<"A", " ", "-", " ", "1">>,
      <<"0", "1", "/", "0", "2", "/", "0", "0", "9", "9">>,
      <<"a", "l">>,
      <<"C">>,
      <<>>,
      <<>>,
      <<>>,
      <<"3">>>>

\* a row shorter than the header
RowShort ==
    <<<<"A", " ", "-", " ", "1">>,
      <<"1", "9", "/", "0", "2", "/", "2", "0", "2", "6">>>>

Lines ==
    {RowA, RowB, RowC, RowNeg, RowNoProject, RowBadDuration, RowNoDate, RowBadDate, RowBadTime,
     RowBadEndTime, RowShort, BlankLine}

SeqsUpTo(S, n) == UNION {[1..k -> S] : k \in 0..n}

\* the texts given to parse_csv: the empty text, the full header and up to
\* MaxRows lines, the header without a duration column and fewer lines
ParseInputs ==
    {<<>>}
      \cup {<<FullHeader>> \o ls : ls \in SeqsUpTo(Lines, MaxRows)}
      \cup {<<NoDurationHeader>> \o ls : ls \in SeqsUpTo(Lines, MaxRows - 1)}

(***************************************************************************)
(* parse_csv as a state machine: the text is chosen, then parsed           *)
(***************************************************************************)
NoRequest == [op |-> "none", filename |-> <<>>]

NoResponse ==
    [status |-> 0, batch_id |-> 0, rows_imported |-> 0,
     projects_created |-> 0, projects_updated |-> 0]

Tables ==
    [projects |-> projects, time_entries |-> time_entries, import_batches |-> import_batches,
     customer_report_notes |-> customer_report_notes]

EmptyTables ==
    [projects |-> {}, time_entries |-> {}, import_batches |-> {}, customer_report_notes |-> {}]

\* no function call under check
NoCall == [op |-> "none"]

\* no request in flight: every request is handled before the next one starts
NoSessions == <<>>

\* the snapshot kept in before
Snapshot ==
    [projects |-> projects, time_entries |-> time_entries,
     import_batches |-> import_batches, customer_report_notes |-> customer_report_notes,
     uploaded |-> uploaded]

EmptySnapshot ==
    [projects |-> {}, time_entries |-> {}, import_batches |-> {}, customer_report_notes |-> {},
     uploaded |-> {}]

InitParse ==
    /\ content \in ParseInputs
    /\ result = EmptyResult
    /\ projects = {} /\ time_entries = {} /\ import_batches = {}
    /\ customer_report_notes = {}
    /\ args = NoCall /\ returned = <<>>
    /\ request = NoRequest
    /\ response = NoResponse
    /\ before = EmptySnapshot
    /\ uploaded = {}
    /\ n_requests = 0
    /\ sessions = NoSessions

ParseCsv ==
    /\ request.op = "none"
    /\ result' = parse_csv(content)
    /\ request' = [op |-> "parse_csv", filename |-> <<>>]
    /\ UNCHANGED <<sessions, content, projects, time_entries, import_batches,
                   customer_report_notes, args, returned,
                   response, before, uploaded, n_requests>>

NextParse == ParseCsv

SpecParse == InitParse /\ [][NextParse]_vars

(***************************************************************************)
(* Properties of parse_csv (checked under SpecParse)                       *)
(***************************************************************************)
Parsed == request.op = "parse_csv"

\* the physical lines after the header, blank ones included
DataLines(text) == IF Len(text) = 0 THEN <<>> ELSE Tail(text)

Items(r) == Len(r.entries) + Len(r.errors)

Prefix(text, k) == SubSeq(text, 1, k)

\* C5: parse_csv returns at most one item (an entry or an error message) per
\* data row: the items never outnumber the data rows, and the last line of the
\* text adds at most one item to entries and errors together (every text
\* without its last line is a text of the model too, so this covers each row).
C5_AtMostOneItemPerRow ==
    Parsed =>
        /\ Items(result) <= Len(DataLines(content))
        /\ Len(content) >= 2 =>
              LET shorter == parse_csv(Prefix(content, Len(content) - 1))
              IN  /\ Items(result) - Items(shorter) \in {0, 1}
                  /\ Len(result.entries) >= Len(shorter.entries)
                  /\ Len(result.errors) >= Len(shorter.errors)

\* C5 witness: a text of three data lines parsed into an entry and an error,
\* the third line being blank
C5_Witness ==
    /\ Parsed
    /\ Len(DataLines(content)) = 3
    /\ Len(result.entries) = 1 /\ Len(result.errors) = 1

\* C6: every entry's project_id is the id of exactly one element of projects,
\* the ids in projects are pairwise distinct, and every element of projects is
\* the project of at least one entry.
C6_ProjectsMatchEntries ==
    Parsed =>
        /\ \A i \in 1..Len(result.entries) :
              Cardinality({j \in 1..Len(result.projects) :
                  result.projects[j].project_id = result.entries[i].project_id}) = 1
        /\ \A j, k \in 1..Len(result.projects) :
              j # k => result.projects[j].project_id # result.projects[k].project_id
        /\ \A j \in 1..Len(result.projects) :
              \E i \in 1..Len(result.entries) :
                  result.entries[i].project_id = result.projects[j].project_id

\* C6 witness: three entries over two projects
C6_Witness ==
    /\ Parsed
    /\ Len(result.entries) = 3
    /\ Len(result.projects) = 2

\* index of the first entry of project id pid
FirstEntryOf(r, pid) ==
    SetMin({i \in 1..Len(r.entries) : r.entries[i].project_id = pid})

\* C7: a ParsedProject carries the name and client of the first entry with its
\* id, whatever later rows of that id say, and projects are listed in the order
\* in which their first entries appear.
C7_FirstSeenWins ==
    Parsed =>
        /\ \A j \in 1..Len(result.projects) :
              LET p == result.projects[j]
                  e == result.entries[FirstEntryOf(result, p.project_id)]
              IN  p.name = e.project_name /\ p.client = e.client
        /\ \A j, k \in 1..Len(result.projects) :
              j < k => FirstEntryOf(result, result.projects[j].project_id)
                         < FirstEntryOf(result, result.projects[k].project_id)

\* C7 witness: a later entry of a recorded project has another name and client,
\* and a second project follows
C7_Witness ==
    /\ Parsed
    /\ Len(result.projects) = 2
    /\ \E i \in 1..Len(result.entries) :
          /\ result.entries[i].project_id = result.projects[1].project_id
          /\ result.entries[i].project_name # result.projects[1].name
          /\ result.entries[i].client # result.projects[1].client

\* a line whose row _parse_row turns into an entry
ValidLine(header, line) ==
    /\ line # BlankLine
    /\ LET out == parse_row(RowDict(header, line), 0)
       IN  out.raised = "" /\ Len(out.ret) = 1

\* the text without its failing rows
WithoutFailingRows(text) ==
    IF Len(text) = 0 THEN text
    ELSE <<text[1]>> \o SelectSeq(Tail(text),
                                   LAMBDA l : l = BlankLine \/ ValidLine(text[1], l))

EmptyField(row, key) ==
    /\ Get(row, key, <<>>) # None
    /\ Strip(Get(row, key, <<>>)) = <<>>

FilledField(row, key) ==
    /\ Get(row, key, <<>>) # None
    /\ Strip(Get(row, key, <<>>)) # <<>>

\* the Duration (decimal) field is present and float() rejects it
UnparseableDuration(row) ==
    /\ Get(row, "Duration (decimal)", <<"0">>) # None
    /\ ~PyFloat(Strip(Get(row, "Duration (decimal)", <<"0">>))).ok

ParseableDuration(row) ==
    /\ Get(row, "Duration (decimal)", <<"0">>) # None
    /\ PyFloat(Strip(Get(row, "Duration (decimal)", <<"0">>))).ok

\* the messages parse_csv reports under row number n
ErrorsOfRow(r, n) == SelectSeq(r.errors, LAMBDA e : e.row = n)

\* the row contributes exactly one error, with message msg, and no entry
FailsOnlyWith(header, line, n, msg) ==
    /\ Len(ErrorsOfRow(result, n)) = 1
    /\ ErrorsOfRow(result, n)[1].msg = msg
    /\ LET alone == parse_csv(<<header, line>>)
       IN  /\ alone.entries = <<>>
           /\ Len(alone.errors) = 1
           /\ alone.errors[1].msg = msg

\* C9: a failing row is reported by its first failing check only, in the order
\* Project, Duration (decimal), Start Date: an empty Project gives exactly one
\* "missing Project column" error whatever the other fields hold; otherwise an
\* unparseable duration gives exactly one "invalid duration" error; otherwise
\* an empty Start Date gives exactly one "missing Start Date" error; the row
\* contributes no entry.
C9_FirstFailingCheckOnly ==
    Parsed =>
        LET lines == SelectSeq(DataLines(content), LAMBDA l : l # BlankLine)
        IN  \A i \in 1..Len(lines) :
              LET row == RowDict(content[1], lines[i])
                  n   == row_number(i)
              IN  /\ EmptyField(row, "Project")
                        => FailsOnlyWith(content[1], lines[i], n, "missing Project column")
                  /\ FilledField(row, "Project") /\ UnparseableDuration(row)
                        => FailsOnlyWith(content[1], lines[i], n, "invalid duration")
                  /\ FilledField(row, "Project") /\ ParseableDuration(row)
                       /\ EmptyField(row, "Start Date")
                        => FailsOnlyWith(content[1], lines[i], n, "missing Start Date")

\* C9 witness: one text with a row failing each of the three checks, the first
\* two of them failing a later check as well
C9_Witness ==
    /\ Parsed
    /\ content = <<FullHeader, RowNoProject, RowBadDuration, RowNoDate>>
    /\ Len(result.errors) = 3
    /\ result.entries = <<>>

\* C10 (as claimed): the number N of every message "Row N: ..." is the 1-based
\* number of the failing row among the lines of the text, the header being
\* row 1; blank lines count as rows.
C10_RowNumberIsLineNumber ==
    Parsed =>
        LET failing == {k \in 2..Len(content) :
                           content[k] # BlankLine /\ ~ValidLine(content[1], content[k])}
        IN  /\ Len(result.errors) = Cardinality(failing)
            /\ \A i \in 1..Len(result.errors) :
                  /\ result.errors[i].row \in failing
                  /\ Cardinality({k \in failing : k <= result.errors[i].row}) = i

\* the Start Date is present, not empty, and strptime("%d/%m/%Y") rejects it
UnparseableDate(row) ==
    /\ FilledField(row, "Start Date")
    /\ ~StrptimeDate(Strip(Get(row, "Start Date", <<>>))).ok

ParseableDate(row) ==
    /\ FilledField(row, "Start Date")
    /\ StrptimeDate(Strip(Get(row, "Start Date", <<>>))).ok

\* the time field is present, not empty, and strptime("%H:%M") rejects it
UnparseableTime(row, key) ==
    /\ FilledField(row, key)
    /\ ~StrptimeTime(Strip(Get(row, key, <<>>))).ok

\* C11: a row whose Project and Duration (decimal) pass their checks and whose
\* Start Date is filled but is no %d/%m/%Y date, or whose Start Date is a date
\* and whose Start Time or End Time is filled but is no %H:%M time, is reported
\* by exactly one "unexpected error" message under its row number; alone in a
\* text it gives no entry and no project; and the loop goes on: parse_csv does
\* not raise and every row of the text has its one item.
C11_MalformedDateOrTime ==
    Parsed =>
        LET lines == SelectSeq(DataLines(content), LAMBDA l : l # BlankLine)
        IN  \A i \in 1..Len(lines) :
              LET row == RowDict(content[1], lines[i])
              IN  ( /\ FilledField(row, "Project")
                    /\ ParseableDuration(row)
                    /\ \/ UnparseableDate(row)
                       \/ /\ ParseableDate(row)
                          /\ \/ UnparseableTime(row, "Start Time")
                             \/ UnparseableTime(row, "End Time") )
                  => /\ FailsOnlyWith(content[1], lines[i], row_number(i), "unexpected error")
                     /\ parse_csv(<<content[1], lines[i]>>).projects = <<>>
                     /\ result.raised = ""
                     /\ Items(result) = Len(lines)

\* C11 witness: a row with a malformed date or start time and a row with a
\* malformed end time, each reported as an unexpected error, followed by a
\* valid row that became an entry
C11_Witness ==
    /\ Parsed
    /\ Len(content) = 4
    /\ content[2] \in {RowBadDate, RowBadTime}
    /\ content[3] = RowBadEndTime
    /\ content[4] = RowA
    /\ Len(result.errors) = 2
    /\ \A i \in 1..2 : result.errors[i] = Err(i + 1, "unexpected error", <<>>)
    /\ Len(result.entries) = 1
    /\ Len(result.projects) = 1

(***************************************************************************)
(* The Project field: _parse_row's project_full, project_id, project_name  *)
(***************************************************************************)
\* longest Project field drawn from FieldChars
MaxFieldLen == 6

FieldChars == {"A", " ", "-", "9"}

\* "A - B - C - 999"
FieldFourSegments ==
    <<"A", " ", "-", " ", "B", " ", "-", " ", "C", " ", "-", " ", "9", "9", "9">>

\* "JustAnId"
FieldJustAnId == <<"J", "u", "s", "t", "A", "n", "I", "d">>

\* the Project fields of a row: every text over FieldChars up to MaxFieldLen,
\* and the two named examples
ProjectFields == SeqsUpTo(FieldChars, MaxFieldLen) \cup {FieldFourSegments, FieldJustAnId}

InitProject ==
    /\ args \in {[op |-> "project", field |-> f] : f \in ProjectFields}
    /\ returned = <<>>
    /\ content = <<>>
    /\ result = EmptyResult
    /\ projects = {} /\ time_entries = {} /\ import_batches = {}
    /\ customer_report_notes = {}
    /\ request = NoRequest
    /\ response = NoResponse
    /\ before = EmptySnapshot
    /\ uploaded = {}
    /\ n_requests = 0
    /\ sessions = NoSessions

\* _parse_row on the Project field alone: the missing-Project check, then
\* extract_project_id and the project name
DeriveProject ==
    /\ args.op = "project"
    /\ returned = <<>>
    /\ \E project_full \in {Strip(args.field)} :
          returned' =
             IF project_full = <<>>
             THEN <<[error |-> "missing Project column"]>>
             ELSE <<[error        |-> "",
                     project_full |-> project_full,
                     project_id   |-> extract_project_id(project_full),
                     project_name |-> project_name_of(project_full),
                     id_of_field  |-> extract_project_id(args.field)]>>
    /\ UNCHANGED <<sessions, content, result, projects, time_entries, import_batches,
                   customer_report_notes, args, request, response, before,
                   uploaded, n_requests>>

NextProject == DeriveProject

SpecProject == InitProject /\ [][NextProject]_vars

\* the Project field was not empty and its id and name were derived
Derived == args.op = "project" /\ returned # <<>> /\ returned[1].error = ""

\* sep occurs in s
Contains(s, sep) ==
    \E k \in 1..(Len(s) - Len(sep) + 1) : SubSeq(s, k, k + Len(sep) - 1) = sep

Last(parts) == parts[Len(parts)]

AllButLast(parts) == SubSeq(parts, 1, Len(parts) - 1)

\* C12 (as claimed): project_id is the trimmed last segment of the field split
\* on " - " and project_name is the segments but the last rejoined with " - ",
\* the whole field when there is one segment; the field is taken as
\* _parse_row reads it, without the blanks around it.
C12_IdAndNameBySegments ==
    Derived =>
        LET segments == Split(returned[1].project_full, ProjectSep)
        IN  /\ returned[1].project_id = Strip(Last(segments))
            /\ returned[1].project_name =
                   IF Len(segments) > 1 THEN Join(AllButLast(segments), ProjectSep)
                   ELSE returned[1].project_full

\* C12 (amended): with the field first trimmed, project_id is the trimmed last
\* segment of its split on " - " (the whole trimmed field when it holds no
\* separator) and project_name is the segments but the last rejoined with
\* " - " and then trimmed (the whole trimmed field when there is one segment);
\* the segments rejoined give the field back, the id holds no separator and no
\* blank at either end; "A - B - C - 999" gives id "999" and name "A - B - C",
\* "JustAnId" gives id and name "JustAnId"; extract_project_id alone gives the
\* trimmed last segment of whatever string it is given.
C12_IdAndNameOfTrimmedField ==
    Derived =>
        LET f        == returned[1].project_full
            segments == Split(f, ProjectSep)
        IN  /\ f = Strip(args.field)
            /\ Join(segments, ProjectSep) = f
            /\ \A i \in 1..Len(segments) : ~Contains(segments[i], ProjectSep)
            /\ returned[1].project_id = Strip(Last(segments))
            /\ returned[1].id_of_field = Strip(Last(Split(args.field, ProjectSep)))
            /\ ~Contains(returned[1].project_id, ProjectSep)
            /\ Strip(returned[1].project_id) = returned[1].project_id
            /\ ~Contains(f, ProjectSep) =>
                  /\ returned[1].project_id = f
                  /\ returned[1].project_name = f
            /\ Len(segments) > 1 =>
                  returned[1].project_name = Strip(Join(AllButLast(segments), ProjectSep))
            /\ args.field = FieldFourSegments =>
                  /\ returned[1].project_id = <<"9", "9", "9">>
                  /\ returned[1].project_name =
                        <<"A", " ", "-", " ", "B", " ", "-", " ", "C">>
            /\ args.field = FieldJustAnId =>
                  /\ returned[1].project_id = FieldJustAnId
                  /\ returned[1].project_name = FieldJustAnId

\* C12 witness: a field of two segments with blanks before the separator, whose
\* name is trimmed after the rejoin
C12_Witness ==
    /\ Derived
    /\ args.field = <<"A", " ", " ", "-", " ", "9">>
    /\ returned[1].project_id = <<"9">>
    /\ returned[1].project_name = <<"A">>

(***************************************************************************)
(* services/bonus_calculator.py                                            *)
(* Hours are in 1/100 hour, rates in whole currency units, bonus_rate in   *)
(* 1/10000, amounts in 1/100 currency unit (cents); an absent rate (None)  *)
(* is <<>>, a present rate v is <<v>>.                                     *)
(***************************************************************************)
\* hours * rate * bonus_rate is in 1/HourRateUnits cent
HourRateUnits == 10000

\* Python's "x or y" on an optional number: None and 0.0 are both false
PyOr(x, y) == IF x = <<>> \/ x[1] = 0 THEN y ELSE x[1]

\* mutant of rate_of: an absent hourly_rate counts as 1
rate_of_default_one(hourly_rate) == PyOr(hourly_rate, 1)

\* rate = hourly_rate or 0.0
rate_of(hourly_rate) == PyOr(hourly_rate, 0)

\* onsite_rate = onsite_hourly_rate or rate
onsite_rate_of(onsite_hourly_rate, rate) == PyOr(onsite_hourly_rate, rate)

\* round(x, 2) of x = n / HourRateUnits cents: the cents it can return.  It
\* is the nearest cent; when n lies exactly between two cents the double that
\* holds the sum lies just above or just below the middle (3 * 150 * 0.0001
\* gives 0.05, 1.25 * 120 * 0.0001 gives 0.02), so either neighbour is possible
Round2(n) ==
    LET q == n \div HourRateUnits
        r == n % HourRateUnits
    IN  IF 2 * r < HourRateUnits THEN {q}
        ELSE IF 2 * r > HourRateUnits THEN {q + 1}
        ELSE {q, q + 1}

\* mutant of calculate_bonus: the on-site bonus is left out
calculate_bonus_remote_only(remote_hours, onsite_hours, hourly_rate, onsite_hourly_rate, bonus_rate) ==
    Round2(remote_hours * rate_of(hourly_rate) * bonus_rate)

calculate_bonus(remote_hours, onsite_hours, hourly_rate, onsite_hourly_rate, bonus_rate) ==
    LET rate         == rate_of(hourly_rate)
        onsite_rate  == onsite_rate_of(onsite_hourly_rate, rate)
        remote_bonus == remote_hours * rate * bonus_rate
        onsite_bonus == onsite_hours * onsite_rate * bonus_rate
    IN  Round2(remote_bonus + onsite_bonus)

\* the hour totals given to calculate_bonus: 0, 1.25, 3, 5, 10 and -1 hours
\* (a negative duration is a valid CSV row)
BonusHours == {0, 125, 300, 500, 1000, -100}

\* Project.hourly_rate and Project.onsite_hourly_rate: NULL or any value >= 0
BonusRates == {<<>>, <<0>>, <<120>>, <<150>>}

\* Project.bonus_rate: 0, 0.0001, 0.02 and 0.5
BonusRateValues == {0, 1, 200, 5000}

InitBonus ==
    /\ args \in {[op |-> "calculate_bonus", remote_hours |-> rh, onsite_hours |-> oh,
                   hourly_rate |-> hr, onsite_hourly_rate |-> ohr, bonus_rate |-> br] :
                     rh \in BonusHours, oh \in BonusHours, hr \in BonusRates,
                     ohr \in BonusRates, br \in BonusRateValues}
    /\ returned = <<>>
    /\ content = <<>>
    /\ result = EmptyResult
    /\ projects = {} /\ time_entries = {} /\ import_batches = {}
    /\ customer_report_notes = {}
    /\ request = NoRequest
    /\ response = NoResponse
    /\ before = EmptySnapshot
    /\ uploaded = {}
    /\ n_requests = 0
    /\ sessions = NoSessions

\* a call of calculate_bonus; its locals rate and onsite_rate are kept with
\* the amount it returns
CalculateBonus ==
    /\ args.op = "calculate_bonus"
    /\ returned = <<>>
    /\ \E amount \in calculate_bonus(args.remote_hours, args.onsite_hours,
                                      args.hourly_rate, args.onsite_hourly_rate,
                                      args.bonus_rate) :
          returned' =
             <<[amount      |-> amount,
                rate        |-> rate_of(args.hourly_rate),
                onsite_rate |-> onsite_rate_of(args.onsite_hourly_rate,
                                               rate_of(args.hourly_rate))]>>
    /\ UNCHANGED <<sessions, content, result, projects, time_entries, import_batches,
                   customer_report_notes, args, request, response, before,
                   uploaded, n_requests>>

NextBonus == CalculateBonus

SpecBonus == InitBonus /\ [][NextBonus]_vars

\* calculate_bonus has returned
Calculated == args.op = "calculate_bonus" /\ returned # <<>>

BonusArgs(rh, oh, hr, ohr, br) ==
    [op |-> "calculate_bonus", remote_hours |-> rh, onsite_hours |-> oh,
     hourly_rate |-> hr, onsite_hourly_rate |-> ohr, bonus_rate |-> br]

\* C13: the amount calculate_bonus returns is
\* remote_hours * rate * bonus_rate + onsite_hours * onsite_rate * bonus_rate
\* (rate and onsite_rate being the two rates the function works with) rounded
\* to two decimal places: a whole number of cents no further than half a cent
\* from that sum; (5, 3, 120, 150, 0.02) gives 21.00, (5, 3, 120, absent,
\* 0.02) gives 19.20 and (10, 0, 150, absent, 0.02) gives 30.00.
C13_BonusFormulaRounded ==
    Calculated =>
        LET exact == args.remote_hours * returned[1].rate * args.bonus_rate
                     + args.onsite_hours * returned[1].onsite_rate * args.bonus_rate
            diff  == returned[1].amount * HourRateUnits - exact
        IN  /\ 2 * diff <= HourRateUnits
            /\ 2 * diff >= -HourRateUnits
            /\ exact % HourRateUnits = 0 => returned[1].amount * HourRateUnits = exact
            /\ args = BonusArgs(500, 300, <<120>>, <<150>>, 200) => returned[1].amount = 2100
            /\ args = BonusArgs(500, 300, <<120>>, <<>>, 200) => returned[1].amount = 1920
            /\ args = BonusArgs(1000, 0, <<150>>, <<>>, 200) => returned[1].amount = 3000

\* C13 witness: a call with both kinds of hours and both rates whose sum is
\* not a whole number of cents and is rounded
C13_Witness ==
    /\ Calculated
    /\ args = BonusArgs(500, 125, <<120>>, <<150>>, 1)
    /\ returned[1].amount = 8

\* C14 (as claimed): the on-site rate is onsite_hourly_rate whenever that value
\* is present, whatever value >= 0 it is, and the remote rate only when it is
\* absent; the remote rate is hourly_rate when present and 0 when absent.
C14_OnsiteRateWhenPresent ==
    Calculated =>
        /\ returned[1].rate =
               IF args.hourly_rate = <<>> THEN 0 ELSE args.hourly_rate[1]
        /\ returned[1].onsite_rate =
               IF args.onsite_hourly_rate = <<>> THEN returned[1].rate
               ELSE args.onsite_hourly_rate[1]

\* C15 (as claimed): calculate_bonus returns 0.0 whenever both hour arguments
\* are zero, or bonus_rate is zero, or hourly_rate is absent, whatever the
\* other arguments are.
C15_ZeroWheneverRateAbsent ==
    ( /\ Calculated
      /\ \/ args.remote_hours = 0 /\ args.onsite_hours = 0
         \/ args.bonus_rate = 0
         \/ args.hourly_rate = <<>> )
    => returned[1].amount = 0

\* C15 (amended): calculate_bonus returns a value for every argument tuple, and
\* it returns 0.0 whenever both hour arguments are zero, or bonus_rate is zero,
\* or hourly_rate is absent and there is no on-site bonus either
\* (onsite_hours is zero, or onsite_hourly_rate is absent or zero).
C15_ZeroWithoutHoursRateOrBonus ==
    /\ args.op = "calculate_bonus" =>
          calculate_bonus(args.remote_hours, args.onsite_hours, args.hourly_rate,
                          args.onsite_hourly_rate, args.bonus_rate) # {}
    /\ ( /\ Calculated
         /\ \/ args.remote_hours = 0 /\ args.onsite_hours = 0
            \/ args.bonus_rate = 0
            \/ /\ args.hourly_rate = <<>>
               /\ \/ args.onsite_hours = 0
                  \/ args.onsite_hourly_rate \in {<<>>, <<0>>} )
       => returned[1].amount = 0

\* C15 witness: hours of both kinds and a bonus rate, but no rate at all
C15_Witness ==
    /\ Calculated
    /\ args = BonusArgs(1000, 500, <<>>, <<>>, 200)
    /\ returned[1].amount = 0

(***************************************************************************)
(* models.py and the SQLAlchemy session (database.py)                      *)
(***************************************************************************)
\* NULL of a nullable column; a value v of such a column is <<v>>
Null == <<>>

\* Project.status default
DefaultStatus == "aktiv"

\* bonus_rate=0.02 of an auto-created project, in 1/10000
ImportBonusRate == 200

\* integer primary key of a new row: SQLite gives max(rowid) + 1
NextId(rows) == IF rows = {} THEN 1 ELSE SetMax({r.id : r \in rows}) + 1

\* a session: the rows its transaction sees, and the objects added but not
\* yet flushed (new), in the order of db.add
Session(tables) ==
    [projects |-> tables.projects, time_entries |-> tables.time_entries,
     import_batches |-> tables.import_batches, new |-> <<>>]

\* db.add(obj): the object is pending until the next flush
add(db, table, row) == [db EXCEPT !.new = Append(@, [table |-> table, row |-> row])]

\* INSERT of one pending object; the database assigns its id
insert(db, obj) ==
    IF obj.table = "projects"
    THEN [db EXCEPT !.projects = @ \cup {[obj.row EXCEPT !.id = NextId(db.projects)]}]
    ELSE IF obj.table = "import_batches"
    THEN [db EXCEPT !.import_batches = @ \cup {[obj.row EXCEPT !.id = NextId(db.import_batches)]}]
    ELSE [db EXCEPT !.time_entries = @ \cup {[obj.row EXCEPT !.id = NextId(db.time_entries)]}]

RECURSIVE flush(_)
\* db.flush(): the pending objects are inserted in the order they were added
flush(db) ==
    IF Len(db.new) = 0 THEN db
    ELSE CHOOSE r \in {flush(d) : d \in {insert([db EXCEPT !.new = Tail(@)], Head(db.new))}} : TRUE

\* async_sessionmaker(engine, class_=AsyncSession, ...) leaves autoflush on
Autoflush == TRUE

\* mutant of execute: the query does not flush the pending objects first
execute_no_autoflush(db) == db

\* db.execute(select(...)): the session a query runs on, after its autoflush
execute(db) == IF Autoflush THEN flush(db) ELSE db

(***************************************************************************)
(* routers/imports.py                                                      *)
(***************************************************************************)
\* Project(project_id=..., name=..., client=..., bonus_rate=0.02)
new_project(p) ==
    [id |-> 0, project_id |-> p.project_id, name |-> p.name, client |-> p.client,
     deal_value |-> Null, budget_hours |-> Null, hourly_rate |-> Null,
     bonus_rate |-> ImportBonusRate, status |-> DefaultStatus,
     onsite_hourly_rate |-> Null]

\* mutant of ensure_project: the lookup of the existing project is lost
ensure_project_no_check(p, db, created) ==
    [db |-> add(db, "projects", new_project(p)), created |-> created + 1]

\* mutant of ensure_project: a project that exists takes the name and client
\* of the file
ensure_project_updating(p, db, created) ==
    IF \E r \in db.projects : r.project_id = p.project_id
    THEN [db |-> [db EXCEPT !.projects =
                     {IF r.project_id = p.project_id
                      THEN [r EXCEPT !.name = p.name, !.client = p.client] ELSE r : r \in @}],
          created |-> created]
    ELSE [db |-> add(db, "projects", new_project(p)), created |-> created + 1]

\* one iteration of _ensure_projects; db is the session after the query
ensure_project(p, db, created) ==
    IF \E r \in db.projects : r.project_id = p.project_id
    THEN [db |-> db, created |-> created]
    ELSE [db |-> add(db, "projects", new_project(p)), created |-> created + 1]

RECURSIVE ensure_projects(_, _, _, _)
\* _ensure_projects, from the i-th parsed project on: [db, created]
ensure_projects(parsed, i, db, created) ==
    IF i > Len(parsed) THEN [db |-> flush(db), created |-> created]
    ELSE CHOOSE r \in {ensure_projects(parsed, i + 1, s.db, s.created) :
                          s \in {ensure_project(parsed[i], execute(db), created)}} : TRUE

\* _build_project_map: Clockify project_id -> database id; of several rows with
\* one project_id the dict keeps the last one read
build_project_map(db) ==
    LET rows == execute(db).projects
    IN  [pid \in {r.project_id : r \in rows} |->
            SetMax({r.id : r \in {x \in rows : x.project_id = pid}})]

\* mutant of is_duplicate: the check never finds a match
is_duplicate_never(db, project_id, employee, entry_date, duration) == FALSE

\* _is_duplicate; db is the session after the query's autoflush
is_duplicate(db, project_id, employee, entry_date, duration) ==
    \E t \in db.time_entries :
        /\ t.project_id = project_id
        /\ t.employee = employee
        /\ t.date = entry_date
        /\ t.duration_decimal = duration

\* mutant of new_time_entry: the entry is stored as on-site work
new_time_entry_onsite(entry, db_project_id, batch_id) ==
    [id |-> 0, project_id |-> db_project_id, date |-> entry.date,
     duration_decimal |-> entry.duration_decimal, employee |-> entry.employee,
     description |-> entry.description, start_time |-> entry.start_time,
     end_time |-> entry.end_time, month |-> entry.month, is_onsite |-> TRUE,
     import_batch_id |-> batch_id]

\* TimeEntry(...) built from a parsed entry; is_onsite takes the column default
new_time_entry(entry, db_project_id, batch_id) ==
    [id |-> 0, project_id |-> db_project_id, date |-> entry.date,
     duration_decimal |-> entry.duration_decimal, employee |-> entry.employee,
     description |-> entry.description, start_time |-> entry.start_time,
     end_time |-> entry.end_time, month |-> entry.month, is_onsite |-> FALSE,
     import_batch_id |-> batch_id]

\* one iteration of the for loop of upload_csv; db is the session after the
\* autoflush of _is_duplicate's query (project_map.get needs no query)
import_entry(entry, project_map, batch_id, db, imported) ==
    IF entry.project_id \notin DOMAIN project_map
    THEN [db |-> db, imported |-> imported]
    ELSE IF is_duplicate(db, project_map[entry.project_id], entry.employee,
                         entry.date, entry.duration_decimal)
    THEN [db |-> db, imported |-> imported]
    ELSE [db |-> add(db, "time_entries",
                     new_time_entry(entry, project_map[entry.project_id], batch_id)),
          imported |-> imported + 1]

RECURSIVE import_entries(_, _, _, _, _, _)
\* the for loop of upload_csv, from the i-th parsed entry on: [db, imported]
import_entries(entries, i, project_map, batch_id, db, imported) ==
    IF i > Len(entries) THEN [db |-> db, imported |-> imported]
    ELSE CHOOSE r \in {import_entries(entries, i + 1, project_map, batch_id, s.db, s.imported) :
                          s \in {import_entry(entries[i], project_map, batch_id,
                                              IF entries[i].project_id \in DOMAIN project_map
                                              THEN execute(db) ELSE db,
                                              imported)}} : TRUE

DotCsv == <<".", "c", "s", "v">>

\* mutant of valid_filename: the file name is not looked at
any_filename(filename) == TRUE

\* upload_csv: file.filename and file.filename.endswith(".csv")
valid_filename(filename) == Len(filename) > 0 /\ EndsWith(filename, DotCsv)

\* batch = ImportBatch(filename=..., row_count=0); db.add(batch); db.flush()
add_batch(db, filename) ==
    flush(add(db, "import_batches", [id |-> 0, filename |-> filename, row_count |-> 0]))

\* batch.id once the batch is flushed: the id of the newest row
batch_id_of(db) == SetMax({b.id : b \in db.import_batches})

\* mutant of set_row_count: the batch keeps the row_count it was added with
set_row_count_never(batches, batch_id, imported) == batches

\* batch.row_count = imported, written by the commit
set_row_count(batches, batch_id, imported) ==
    {IF b.id = batch_id THEN [b EXCEPT !.row_count = imported] ELSE b : b \in batches}

\* ImportResult(...)
ImportResult(batch_id, imported, created) ==
    [status |-> 200, batch_id |-> batch_id, rows_imported |-> imported,
     projects_created |-> created, projects_updated |-> 0]

\* raise HTTPException(status_code=...), or an exception that leaves the handler
HttpError(status) == [NoResponse EXCEPT !.status = status]

(***************************************************************************)
(* services/hours_service.py                                               *)
(***************************************************************************)
\* a WHERE condition on TimeEntry passed as a filter: TimeEntry.month == value
\* or TimeEntry.month.startswith(value)
satisfies(t, f) ==
    IF f.kind = "month_eq" THEN t.month = f.value
    ELSE /\ Len(t.month) >= Len(f.value)
         /\ SubSeq(t.month, 1, Len(f.value)) = f.value

RECURSIVE sum_duration(_)
\* func.sum(TimeEntry.duration_decimal) over the rows of one group
sum_duration(rows) ==
    IF rows = {} THEN 0
    ELSE LET t == CHOOSE x \in rows : TRUE
         IN  t.duration_decimal + sum_duration(rows \ {t})

\* the statement's result: one row (project_id, is_onsite, total) for each
\* group that has at least one selected entry
hours_query(rows, project_ids, filters) ==
    LET ids      == {project_ids[i] : i \in 1..Len(project_ids)}
        selected == {t \in rows : /\ t.project_id \in ids
                                  /\ \A i \in 1..Len(filters) : satisfies(t, filters[i])}
        groups   == {<<t.project_id, t.is_onsite>> : t \in selected}
    IN  {[pid       |-> g[1],
          is_onsite |-> g[2],
          total     |-> sum_duration({t \in selected :
                                         t.project_id = g[1] /\ t.is_onsite = g[2]})] :
            g \in groups}

\* mutant of hours_of: the two branches of "if is_onsite" are exchanged
hours_of_swapped(result_rows, pid) ==
    LET remote == {r \in result_rows : r.pid = pid /\ ~r.is_onsite}
        onsite == {r \in result_rows : r.pid = pid /\ r.is_onsite}
    IN  <<IF onsite = {} THEN 0 ELSE (CHOOSE r \in onsite : TRUE).total,
          IF remote = {} THEN 0 ELSE (CHOOSE r \in remote : TRUE).total>>

\* the for loop over result.all(): the pair of a project after its group rows
\* were written over (0.0, 0.0); a project has at most one row of each kind
hours_of(result_rows, pid) ==
    LET remote == {r \in result_rows : r.pid = pid /\ ~r.is_onsite}
        onsite == {r \in result_rows : r.pid = pid /\ r.is_onsite}
    IN  <<IF remote = {} THEN 0 ELSE (CHOOSE r \in remote : TRUE).total,
          IF onsite = {} THEN 0 ELSE (CHOOSE r \in onsite : TRUE).total>>

\* get_hours_by_project: the dict {project_id: (remote_hours, onsite_hours)}
get_hours_by_project(rows, project_ids, filters) ==
    IF Len(project_ids) = 0 THEN <<>>
    ELSE LET result_rows == hours_query(rows, project_ids, filters)
         IN  [pid \in {project_ids[i] : i \in 1..Len(project_ids)} |->
                 hours_of(result_rows, pid)]

Month202602 == StrftimeMonth(<<2026, 2, 19>>)

Month202603 == StrftimeMonth(<<2026, 3, 1>>)

\* a stored TimeEntry, of which the query reads project_id, month, is_onsite
\* and duration_decimal
HourRow(id, project_id, month, is_onsite, duration) ==
    [id |-> id, project_id |-> project_id, date |-> <<2026, 2, 19>>,
     duration_decimal |-> duration, employee |-> <<"a", "l">>, description |-> <<>>,
     start_time |-> <<>>, end_time |-> <<>>, month |-> month, is_onsite |-> is_onsite,
     import_batch_id |-> 1]

\* the rows the tables of SpecHours are made of: two projects, two months,
\* remote and on-site entries, one negative duration
HourRows ==
    {HourRow(1, 1, Month202602, FALSE, 300),
     HourRow(2, 1, Month202602, FALSE, 150),
     HourRow(3, 1, Month202602, TRUE, 200),
     HourRow(4, 1, Month202603, TRUE, 400),
     HourRow(5, 2, Month202602, FALSE, -100),
     HourRow(6, 2, Month202603, TRUE, 250)}

\* the project_ids argument: a list, possibly empty, with a project without
\* entries (3) or with an id twice
HourProjectIds == {<<>>, <<1>>, <<2, 1>>, <<2, 3>>, <<1, 1>>}

\* the filters the callers pass: none, TimeEntry.month == current_month,
\* TimeEntry.month.startswith(current_year)
HourFilters ==
    {<<>>,
     <<[kind |-> "month_eq", value |-> Month202602]>>,
     <<[kind |-> "month_startswith", value |-> <<"2", "0", "2", "6">>]>>,
     <<[kind |-> "month_startswith", value |-> <<"2", "0", "2", "6">>],
       [kind |-> "month_eq", value |-> Month202603]>>}

InitHours ==
    /\ time_entries \in SUBSET HourRows
    /\ args \in {[op |-> "get_hours_by_project", project_ids |-> ids, filters |-> fs] :
                     ids \in HourProjectIds, fs \in HourFilters}
    /\ returned = <<>>
    /\ content = <<>>
    /\ result = EmptyResult
    /\ projects = {} /\ import_batches = {}
    /\ customer_report_notes = {}
    /\ request = NoRequest
    /\ response = NoResponse
    /\ before = EmptySnapshot
    /\ uploaded = {}
    /\ n_requests = 0
    /\ sessions = NoSessions

\* a call of get_hours_by_project on the stored time entries
GetHoursByProject ==
    /\ args.op = "get_hours_by_project"
    /\ returned = <<>>
    /\ returned' = <<get_hours_by_project(time_entries, args.project_ids, args.filters)>>
    /\ UNCHANGED <<sessions, content, result, projects, time_entries, import_batches,
                   customer_report_notes, args, request, response, before,
                   uploaded, n_requests>>

NextHours == GetHoursByProject

SpecHours == InitHours /\ [][NextHours]_vars

\* get_hours_by_project has returned
GotHours == args.op = "get_hours_by_project" /\ returned # <<>>

\* the stored entries of project pid, on-site or not, that satisfy every filter
MatchingEntries(pid, is_onsite) ==
    {t \in time_entries :
        /\ t.project_id = pid
        /\ t.is_onsite = is_onsite
        /\ \A i \in 1..Len(args.filters) : satisfies(t, args.filters[i])}

\* C16: get_hours_by_project returns a mapping whose keys are exactly the
\* requested project ids; the pair of each id is (the sum of the durations of
\* its stored entries that satisfy all filters and are not on-site, the same
\* sum for its on-site entries), (0.0, 0.0) for a requested project without a
\* matching entry; entries of projects that were not requested do not count:
\* the mapping is the same when they are taken out of the table.
C16_HoursByProject ==
    GotHours =>
        LET hours     == returned[1]
            requested == {args.project_ids[i] : i \in 1..Len(args.project_ids)}
        IN  /\ DOMAIN hours = requested
            /\ \A pid \in requested :
                  /\ hours[pid][1] = sum_duration(MatchingEntries(pid, FALSE))
                  /\ hours[pid][2] = sum_duration(MatchingEntries(pid, TRUE))
                  /\ MatchingEntries(pid, FALSE) \cup MatchingEntries(pid, TRUE) = {}
                        => hours[pid] = <<0, 0>>
            /\ hours = get_hours_by_project({t \in time_entries : t.project_id \in requested},
                                            args.project_ids, args.filters)

\* C16 witness: projects 2 and 1 asked for with a month filter; project 1 has
\* two remote entries and one on-site entry in the month and an entry in
\* another month, project 2 has a remote entry only
C16_Witness ==
    /\ GotHours
    /\ time_entries = HourRows
    /\ args.project_ids = <<2, 1>>
    /\ args.filters = <<[kind |-> "month_eq", value |-> Month202602]>>
    /\ returned[1][1] = <<450, 200>>
    /\ returned[1][2] = <<-100, 0>>

(***************************************************************************)
(* The application: requests against the database                          *)
(***************************************************************************)
Filenames ==
    {<<"a", ".", "c", "s", "v">>, <<"a", ".", "t", "x", "t">>, <<>>}

\* the files uploaded
UploadContents ==
    {<<>>,
     <<FullHeader, RowA>>,
     <<FullHeader, RowA, RowB>>,
     <<FullHeader, RowC, RowNoProject, RowNeg>>,
     <<FullHeader, RowB, BlankLine, RowNeg>>,
     <<FullHeader, RowNoProject, RowBadDate>>,
     <<NoDurationHeader, RowA, RowC>>,
     <<FullHeader, RowBadDuration, RowShort>>,
     <<FullHeader, RowOldDate>>}

Init ==
    /\ content = <<>>
    /\ result = EmptyResult
    /\ projects = {} /\ time_entries = {} /\ import_batches = {}
    /\ customer_report_notes = {}
    /\ args = NoCall /\ returned = <<>>
    /\ request = NoRequest
    /\ response = NoResponse
    /\ before = EmptySnapshot
    /\ uploaded = {}
    /\ n_requests = 0
    /\ sessions = NoSessions

\* POST /api/imports/upload: upload_csv.  Each \E x \in {v} is the statement
\* x = v.  A request that ends in an exception leaves the tables as they were:
\* the session is closed without a commit.
upload(filename, text) ==
          /\ content' = text
          /\ request' = [op |-> "upload_csv", filename |-> filename]
          /\ before' = Snapshot
          /\ n_requests' = n_requests + 1
          /\ UNCHANGED <<customer_report_notes, args, returned, sessions>>
          /\ IF ~valid_filename(filename)
             THEN /\ response' = HttpError(400)
                  /\ UNCHANGED <<result, projects, time_entries, import_batches, uploaded>>
             ELSE \E parsed \in {parse_csv(text)} :
                IF parsed.raised # ""
                THEN /\ response' = HttpError(500)
                     /\ UNCHANGED <<result, projects, time_entries, import_batches, uploaded>>
                ELSE IF Len(parsed.entries) = 0
                THEN /\ response' = HttpError(400)
                     /\ result' = parsed
                     /\ UNCHANGED <<projects, time_entries, import_batches, uploaded>>
                ELSE
                  \E ensured \in {ensure_projects(parsed.projects, 1, Session(Tables), 0)} :
                  \E project_map \in {build_project_map(ensured.db)} :
                  \E with_batch \in {add_batch(execute(ensured.db), filename)} :
                  \E batch_id \in {batch_id_of(with_batch)} :
                  \E looped \in {import_entries(parsed.entries, 1, project_map,
                                                batch_id, with_batch, 0)} :
                  \E committed \in {flush(looped.db)} :
                     /\ result' = parsed
                     /\ projects' = committed.projects
                     /\ time_entries' = committed.time_entries
                     /\ import_batches' =
                           set_row_count(committed.import_batches, batch_id, looped.imported)
                     /\ response' = ImportResult(batch_id, looped.imported, ensured.created)
                     /\ uploaded' = uploaded \cup {text}

UploadCsv ==
    /\ n_requests < MaxUploads
    /\ \E filename \in Filenames, text \in UploadContents : upload(filename, text)

Next == UploadCsv

Spec == Init /\ [][Next]_vars

(***************************************************************************)
(* Properties of the import (checked under Spec)                           *)
(***************************************************************************)
Uploading == request.op = "upload_csv"

Accepted == Uploading /\ response.status = 200

\* the four fields duplicate suppression compares, of a stored TimeEntry
Key(t) == <<t.project_id, t.employee, t.date, t.duration_decimal>>

\* C1: no two stored TimeEntry rows agree on (project, employee, date,
\* duration_decimal); an upload leaves every stored entry as it was and stores
\* no entry that matches a stored one on these four fields.
C1_NoDuplicateEntries ==
    /\ \A t1, t2 \in time_entries : Key(t1) = Key(t2) => t1 = t2
    /\ Uploading =>
          /\ before.time_entries \subseteq time_entries
          /\ \A t \in time_entries \ before.time_entries :
                \A b \in before.time_entries : Key(t) # Key(b)

\* C1 witness: an upload of two entries stored one and dropped the other, which
\* matched an entry stored by an earlier upload
C1_Witness ==
    /\ Accepted
    /\ Len(result.entries) = 2
    /\ response.rows_imported = 1
    /\ \E b \in before.time_entries, p \in projects :
          /\ b.project_id = p.id
          /\ p.project_id = result.entries[1].project_id
          /\ b.employee = result.entries[1].employee
          /\ b.date = result.entries[1].date
          /\ b.duration_decimal = result.entries[1].duration_decimal

\* C2: uploading a text that an earlier upload imported reports rows_imported
\* = 0 and projects_created = 0 and leaves the stored TimeEntry and Project
\* rows as they were.
C2_ReimportIdempotent ==
    Accepted /\ content \in before.uploaded =>
        /\ response.rows_imported = 0
        /\ response.projects_created = 0
        /\ time_entries = before.time_entries
        /\ projects = before.projects

\* C2 witness: a text of two projects is uploaded again, after another upload
C2_Witness ==
    /\ Accepted
    /\ content \in before.uploaded
    /\ Len(result.projects) = 2
    /\ Cardinality(before.uploaded) = 2

\* C3 (as claimed): the first upload into a store without time entries reports
\* rows_imported = N, the number of entries parse_csv produced, and stores N
\* entries, whatever rows the text contains.
C3_FirstUploadImportsAll ==
    Accepted /\ before.time_entries = {} =>
        /\ response.rows_imported = Len(result.entries)
        /\ Cardinality(time_entries) = Len(result.entries)

\* the four fields duplicate suppression compares, of a parsed entry
ParsedKey(e) == <<e.project_id, e.employee, e.date, e.duration_decimal>>

\* the parsed entries that are the first of their key in the text
FirstOfKey(entries) ==
    {i \in 1..Len(entries) :
        \A j \in 1..(i - 1) : ParsedKey(entries[j]) # ParsedKey(entries[i])}

\* the stored row t holds the parsed entry e, in the batch of the response
Stores(t, e) ==
    /\ \E p \in projects : p.id = t.project_id /\ p.project_id = e.project_id
    /\ t.employee = e.employee /\ t.date = e.date
    /\ t.duration_decimal = e.duration_decimal
    /\ t.description = e.description
    /\ t.start_time = e.start_time /\ t.end_time = e.end_time
    /\ t.month = e.month
    /\ t.import_batch_id = response.batch_id

\* C3 (amended): the first upload into a store without time entries reports
\* rows_imported = the number of distinct (project_id, employee, date,
\* duration_decimal) among the entries parse_csv produced, and stores exactly
\* the first parsed entry of each; that is N when no two entries agree on them.
C3_FirstUploadImportsDistinct ==
    Accepted /\ before.time_entries = {} =>
        LET firsts == FirstOfKey(result.entries)
        IN  /\ response.rows_imported = Cardinality(firsts)
            /\ Cardinality(time_entries) = Cardinality(firsts)
            /\ \A i \in firsts : \E t \in time_entries : Stores(t, result.entries[i])
            /\ \A t \in time_entries : \E i \in firsts : Stores(t, result.entries[i])
            /\ (Cardinality(firsts) = Len(result.entries)
                   => response.rows_imported = Len(result.entries))

\* C3 witness: the first upload holds two entries for one project, employee,
\* date and duration, and one of them is stored
C3_Witness ==
    /\ Accepted
    /\ before.time_entries = {}
    /\ Len(result.entries) = 2
    /\ ParsedKey(result.entries[1]) = ParsedKey(result.entries[2])
    /\ result.entries[1] # result.entries[2]
    /\ response.rows_imported = 1

\* the request is one upload_csv rejects
Rejectable ==
    /\ Uploading
    /\ \/ Len(request.filename) = 0
       \/ ~EndsWith(request.filename, DotCsv)
       \/ Len(parse_csv(content).entries) = 0

\* C4: an upload whose file name does not end in .csv, or whose text yields no
\* valid entry, is answered 400 and creates no Project, ImportBatch or TimeEntry.
C4_RejectedUploadChangesNothing ==
    Rejectable =>
        /\ response.status = 400
        /\ projects = before.projects
        /\ time_entries = before.time_entries
        /\ import_batches = before.import_batches

\* C4 witness: into a store that holds entries, a .csv file whose rows all fail
\* is uploaded and rejected
C4_Witness ==
    /\ Uploading
    /\ EndsWith(request.filename, DotCsv)
    /\ result.entries = <<>> /\ Len(result.errors) = 2
    /\ response.status = 400
    /\ time_entries # {}

\* C21: every entry parse_csv returned and every stored TimeEntry has a
\* duration_decimal of at least 0.
C21_DurationNonNegative ==
    /\ \A i \in 1..Len(result.entries) : result.entries[i].duration_decimal >= 0
    /\ \A t \in time_entries : t.duration_decimal >= 0

\* the YYYY-MM key of a date: the year in four digits, the month in two
MonthKey(date) ==
    <<DigitChar(date[1] \div 1000), DigitChar((date[1] \div 100) % 10),
      DigitChar((date[1] \div 10) % 10), DigitChar(date[1] % 10), "-",
      DigitChar(date[2] \div 10), DigitChar(date[2] % 10)>>

\* C22: the month of every parsed entry and of every stored TimeEntry is the
\* YYYY-MM key of the entry's own date.
C22_MonthOfOwnDate ==
    /\ \A i \in 1..Len(result.entries) :
          result.entries[i].month = MonthKey(result.entries[i].date)
    /\ \A t \in time_entries : t.month = MonthKey(t.date)

\* the batches stored by the last request
NewBatches == import_batches \ before.import_batches

\* the stored entries of a batch
EntriesOf(batch_id) == {t \in time_entries : t.import_batch_id = batch_id}

\* C28: an upload that is accepted adds exactly one ImportBatch, the one its
\* response names, and leaves the other batches as they were; that batch's
\* row_count is the rows_imported of the response and the number of stored
\* TimeEntries of the batch; an upload that is rejected adds none; every stored
\* TimeEntry refers to exactly one stored ImportBatch.
C28_OneBatchPerUpload ==
    /\ Accepted =>
          /\ before.import_batches \subseteq import_batches
          /\ Cardinality(NewBatches) = 1
          /\ \A b \in NewBatches :
                /\ b.id = response.batch_id
                /\ b.row_count = response.rows_imported
                /\ b.row_count = Cardinality(EntriesOf(b.id))
                /\ EntriesOf(b.id) = time_entries \ before.time_entries
    /\ Uploading /\ ~Accepted => import_batches = before.import_batches
    /\ \A t \in time_entries :
          Cardinality({b \in import_batches : b.id = t.import_batch_id}) = 1

\* C28 witness: an upload whose entries were all stored already was accepted
\* and left a batch of row_count 0 next to a batch with rows
C28_Witness ==
    /\ Accepted
    /\ response.rows_imported = 0
    /\ \E b \in NewBatches : b.row_count = 0
    /\ \E b \in before.import_batches : b.row_count > 0

(***************************************************************************)
(* schemas.py, routers/projects.py and the customer notes of               *)
(* routers/reports.py                                                      *)
(***************************************************************************)
\* number of HTTP requests in one behaviour of SpecProjects
MaxRequests == 3

\* the lifecycle statuses bulk_update_status accepts (app.config)
STATUS_ACTIVE == "aktiv"

STATUS_PAUSED == "pausiert"

STATUS_COMPLETED == "abgeschlossen"

\* bonus_rate 1.0 in 1/10000
BonusRateOne == 10000

\* mutant of valid_bonus_rate: every bonus_rate passes
valid_bonus_rate_any(v) == TRUE

\* validate_bonus_rate: not (v < 0 or v > 1); None passes in ProjectUpdate
valid_bonus_rate(v) == v = Null \/ (v[1] >= 0 /\ v[1] <= BonusRateOne)

\* validate_non_negative: not (v is not None and v < 0)
valid_non_negative(v) == v = Null \/ v[1] >= 0

NonNegativeFields == {"deal_value", "budget_hours", "hourly_rate", "onsite_hourly_rate"}

\* the columns declared without nullable=True among those a request can write
NotNullFields == {"name", "client", "bonus_rate", "status"}

\* the validators of ProjectCreate / ProjectUpdate on the fields the body
\* sets; fields is a function from field names to <<value>> or Null (JSON null)
valid_fields(fields) ==
    /\ \A k \in DOMAIN fields \cap NonNegativeFields : valid_non_negative(fields[k])
    /\ "bonus_rate" \in DOMAIN fields => valid_bonus_rate(fields["bonus_rate"])

\* ProjectCreate: name, client, project_id, bonus_rate and status are not
\* Optional, so a null for one of them is a validation error
valid_create(fields) ==
    /\ valid_fields(fields)
    /\ \A k \in DOMAIN fields \cap (NotNullFields \cup {"project_id"}) : fields[k] # Null

\* the value a column takes from a body field: nullable columns keep <<v>> or
\* Null, the others hold the bare value
column_value(k, v) == IF k \in NotNullFields \cup {"project_id"} THEN v[1] ELSE v

\* Project(**data.model_dump()): the fields of the body over the defaults of
\* ProjectBase
project_of(fields) ==
    LET field(k, default) ==
            IF k \in DOMAIN fields THEN column_value(k, fields[k]) ELSE default
    IN  [id                 |-> 0,
         project_id         |-> fields.project_id[1],
         name               |-> fields.name[1],
         client             |-> fields.client[1],
         deal_value         |-> field("deal_value", Null),
         budget_hours       |-> field("budget_hours", Null),
         hourly_rate        |-> field("hourly_rate", Null),
         bonus_rate         |-> field("bonus_rate", ImportBonusRate),
         status             |-> field("status", STATUS_ACTIVE),
         onsite_hourly_rate |-> field("onsite_hourly_rate", Null)]

\* mutant of project_exists: the lookup finds nothing
project_exists_never(rows, project_id) == FALSE

\* create_project: select(Project).where(Project.project_id == data.project_id)
project_exists(rows, project_id) == \E r \in rows : r.project_id = project_id

\* update_project: setattr(project, key, value) for every field of the body
\* (a None put into a NOT NULL column never reaches the table, see
\* violates_not_null)
set_fields(project, updates) ==
    LET field(k) ==
            IF k \notin DOMAIN updates THEN project[k]
            ELSE IF updates[k] = Null THEN Null
            ELSE column_value(k, updates[k])
    IN  [id                 |-> project.id,
         project_id         |-> project.project_id,
         name               |-> field("name"),
         client             |-> field("client"),
         deal_value         |-> field("deal_value"),
         budget_hours       |-> field("budget_hours"),
         hourly_rate        |-> field("hourly_rate"),
         bonus_rate         |-> field("bonus_rate"),
         status             |-> field("status"),
         onsite_hourly_rate |-> field("onsite_hourly_rate")]

\* the UPDATE of the commit fails with IntegrityError when setattr has put
\* None into a NOT NULL column
violates_not_null(updates) == \E k \in DOMAIN updates \cap NotNullFields : updates[k] = Null

\* mutant of delete_cascade: only the project row is deleted
delete_no_cascade(tables, id) ==
    [tables EXCEPT !.projects = {p \in @ : p.id # id}]

\* db.delete(project) with cascade="all, delete-orphan" on Project.time_entries
\* and Project.report_notes: the project's entries and notes go with it
delete_cascade(tables, id) ==
    [tables EXCEPT
        !.projects = {p \in @ : p.id # id},
        !.time_entries = {t \in @ : t.project_id # id},
        !.customer_report_notes = {n \in @ : n.project_id # id}]

RECURSIVE delete_all(_, _, _)
\* bulk_delete: for project in projects: await db.delete(project)
delete_all(tables, ids, i) ==
    IF i > Len(ids) THEN tables
    ELSE CHOOSE r \in {delete_all(t, ids, i + 1) : t \in {delete_cascade(tables, ids[i])}} : TRUE

\* the answer of a handler that returns
Answer(status) == [NoResponse EXCEPT !.status = status]

\* the bodies of POST /api/projects: a project with rates, a project with a
\* status outside the lifecycle and the largest bonus_rate, a negative rate,
\* a bonus_rate above 1
CreateBodies ==
    {[project_id |-> <<<<"1">>>>, name |-> <<<<"A">>>>, client |-> <<<<"C">>>>,
      hourly_rate |-> <<120>>, onsite_hourly_rate |-> <<0>>, budget_hours |-> <<40>>],
     [project_id |-> <<<<"2">>>>, name |-> <<<<"B">>>>, client |-> <<<<"D">>>>,
      status |-> <<"archived">>, bonus_rate |-> <<BonusRateOne>>, deal_value |-> Null],
     [project_id |-> <<<<"1">>>>, name |-> <<<<"A">>>>, client |-> <<<<"C">>>>,
      hourly_rate |-> <<-1>>],
     [project_id |-> <<<<"3">>>>, name |-> <<<<"A">>>>, client |-> <<<<"C">>>>,
      bonus_rate |-> <<BonusRateOne + 1>>]}

\* the requests PUT /api/projects/{project_id}: <<database id, body>>
UpdateRequests ==
    {<<1, [status |-> <<STATUS_PAUSED>>, hourly_rate |-> <<200>>]>>,
     <<1, [status |-> <<"archived">>]>>,
     <<1, [bonus_rate |-> <<-1>>]>>,
     <<1, [bonus_rate |-> Null, deal_value |-> <<1000>>]>>,
     <<2, [onsite_hourly_rate |-> <<-1>>, status |-> <<STATUS_PAUSED>>]>>,
     <<2, [hourly_rate |-> Null, bonus_rate |-> <<0>>]>>}

\* the bodies of PUT /api/projects/bulk/status
BulkStatusBodies ==
    {[project_ids |-> <<1, 2>>, status |-> STATUS_COMPLETED],
     [project_ids |-> <<1>>, status |-> "archived"]}

\* the ids given to DELETE /api/projects/{project_id}
DeleteIds == {1, 2}

\* the id lists given to DELETE /api/projects/bulk
BulkDeleteIds == {<<1, 2>>, <<2, 3>>}

\* the requests POST /api/reports/customer/{project_id}/notes
NoteRequests ==
    {[project_id |-> 1, month |-> Month202602, note |-> "x"],
     [project_id |-> 1, month |-> Month202602, note |-> "y"],
     [project_id |-> 1, month |-> Month202603, note |-> "x"],
     [project_id |-> 2, month |-> Month202602, note |-> "x"]}

\* the files uploaded in SpecProjects: entries of project "1", of project "2"
ProjectUploadContents ==
    {<<FullHeader, RowA, RowB>>, <<FullHeader, RowC, RowNoProject, RowNeg>>}

\* mutant of find_note: the SELECT of upsert_customer_note finds nothing
find_note_none(notes, project_id, month) == {}

\* the CustomerReportNote rows of a project and a month
find_note(notes, project_id, month) ==
    {n \in notes : n.project_id = project_id /\ n.month = month}

\* get_customer_report, the note of the response: the text of the row
\* scalar_one_or_none finds, "" when there is none (two rows would raise
\* MultipleResultsFound: status 500)
get_customer_report(tables, project_id, month) ==
    LET found == {n \in tables.customer_report_notes :
                     n.project_id = project_id /\ n.month = month}
    IN  IF ~\E p \in tables.projects : p.id = project_id
        THEN [status |-> 404, note |-> ""]
        ELSE IF found = {} THEN [status |-> 200, note |-> ""]
        ELSE IF Cardinality(found) > 1 THEN [status |-> 500, note |-> ""]
        ELSE [status |-> 200, note |-> (CHOOSE n \in found : TRUE).note]

\* _build_project_with_hours: the computed fields of ProjectWithHours, hours in
\* hundredths; bonus_amount is the set of cents round(.., 2) can give
build_project_with_hours(project, remote_hours, onsite_hours) ==
    [total_hours   |-> remote_hours + onsite_hours,
     bonus_amount  |-> calculate_bonus(remote_hours, onsite_hours, project.hourly_rate,
                                       project.onsite_hourly_rate, project.bonus_rate),
     remote_hours  |-> remote_hours,
     onsite_hours  |-> onsite_hours]

\* get_project for a stored project, and each element of list_projects
get_project(tables, project) ==
    CHOOSE r \in {build_project_with_hours(project, hours_map[project.id][1],
                                           hours_map[project.id][2]) :
                     hours_map \in {get_hours_by_project(tables.time_entries,
                                                         <<project.id>>, <<>>)}} : TRUE

\* what every request of SpecProjects does besides its handler's work
Requested(req) ==
    /\ n_requests < MaxRequests
    /\ request' = req
    /\ before' = Snapshot
    /\ n_requests' = n_requests + 1
    /\ UNCHANGED <<args, returned, sessions>>

\* POST /api/projects: create_project, after the validation of the body
CreateProject ==
    \E data \in CreateBodies :
       /\ Requested([op |-> "create_project", data |-> data])
       /\ UNCHANGED <<content, result, time_entries, import_batches,
                      customer_report_notes, uploaded>>
       /\ IF ~valid_create(data)
          THEN /\ response' = HttpError(422)
               /\ UNCHANGED projects
          ELSE IF project_exists(projects, data.project_id[1])
          THEN /\ response' = HttpError(409)
               /\ UNCHANGED projects
          ELSE /\ projects' = flush(add(Session(Tables), "projects", project_of(data))).projects
               /\ response' = Answer(201)

\* PUT /api/projects/bulk/status: bulk_update_status
BulkUpdateStatus ==
    \E data \in BulkStatusBodies :
       /\ Requested([op |-> "bulk_update_status", data |-> data])
       /\ UNCHANGED <<content, result, time_entries, import_batches,
                      customer_report_notes, uploaded>>
       /\ IF data.status \notin {STATUS_ACTIVE, STATUS_PAUSED, STATUS_COMPLETED}
          THEN /\ response' = HttpError(400)
               /\ UNCHANGED projects
          ELSE /\ projects' =
                     {IF \E i \in 1..Len(data.project_ids) : data.project_ids[i] = p.id
                      THEN [p EXCEPT !.status = data.status] ELSE p : p \in projects}
               /\ response' = Answer(200)

\* DELETE /api/projects/bulk: bulk_delete
BulkDelete ==
    \E project_ids \in BulkDeleteIds :
       /\ Requested([op |-> "bulk_delete", project_ids |-> project_ids])
       /\ UNCHANGED <<content, result, import_batches, uploaded>>
       /\ \E found \in {SelectSeq(project_ids, LAMBDA id : \E p \in projects : p.id = id)} :
          \E deleted \in {delete_all(Tables, found, 1)} :
             /\ projects' = deleted.projects
             /\ time_entries' = deleted.time_entries
             /\ customer_report_notes' = deleted.customer_report_notes
             /\ response' = Answer(200)

\* PUT /api/projects/{project_id}: update_project, after the validation of the
\* body; a failing commit leaves the row as it was
UpdateProject ==
    \E req \in UpdateRequests :
       /\ Requested([op |-> "update_project", project_id |-> req[1], data |-> req[2]])
       /\ UNCHANGED <<content, result, time_entries, import_batches,
                      customer_report_notes, uploaded>>
       /\ IF ~valid_fields(req[2])
          THEN /\ response' = HttpError(422)
               /\ UNCHANGED projects
          ELSE IF ~\E p \in projects : p.id = req[1]
          THEN /\ response' = HttpError(404)
               /\ UNCHANGED projects
          ELSE IF violates_not_null(req[2])
          THEN /\ response' = HttpError(500)
               /\ UNCHANGED projects
          ELSE \E project \in {p \in projects : p.id = req[1]} :
                  /\ projects' = (projects \ {project}) \cup {set_fields(project, req[2])}
                  /\ response' = Answer(200)

\* DELETE /api/projects/{project_id}: delete_project
DeleteProject ==
    \E project_id \in DeleteIds :
       /\ Requested([op |-> "delete_project", project_id |-> project_id])
       /\ UNCHANGED <<content, result, import_batches, uploaded>>
       /\ IF ~\E p \in projects : p.id = project_id
          THEN /\ response' = HttpError(404)
               /\ UNCHANGED <<projects, time_entries, customer_report_notes>>
          ELSE \E deleted \in {delete_cascade(Tables, project_id)} :
                  /\ projects' = deleted.projects
                  /\ time_entries' = deleted.time_entries
                  /\ customer_report_notes' = deleted.customer_report_notes
                  /\ response' = Answer(204)

\* POST /api/reports/customer/{project_id}/notes: upsert_customer_note
UpsertCustomerNote ==
    \E req \in NoteRequests :
       /\ Requested([op |-> "upsert_customer_note", project_id |-> req.project_id,
                     month |-> req.month, note |-> req.note])
       /\ UNCHANGED <<content, result, projects, time_entries, import_batches, uploaded>>
       /\ IF ~\E p \in projects : p.id = req.project_id
          THEN /\ response' = HttpError(404)
               /\ UNCHANGED customer_report_notes
          ELSE \E found \in {find_note(customer_report_notes, req.project_id, req.month)} :
               IF Cardinality(found) > 1
               THEN /\ response' = HttpError(500)
                    /\ UNCHANGED customer_report_notes
               ELSE
               /\ response' = Answer(200)
               /\ IF found # {}
                  THEN customer_report_notes' =
                          {IF n \in found THEN [n EXCEPT !.note = req.note] ELSE n :
                             n \in customer_report_notes}
                  ELSE customer_report_notes' =
                          customer_report_notes \cup
                             {[id |-> NextId(customer_report_notes),
                               project_id |-> req.project_id,
                               month |-> req.month, note |-> req.note]}

\* POST /api/imports/upload among the other requests
UploadProjectCsv ==
    /\ n_requests < MaxRequests
    /\ \E text \in ProjectUploadContents : upload(<<"a", ".", "c", "s", "v">>, text)

NextProjects ==
    \/ CreateProject
    \/ BulkUpdateStatus
    \/ BulkDelete
    \/ UpdateProject
    \/ DeleteProject
    \/ UpsertCustomerNote
    \/ UploadProjectCsv

SpecProjects == Init /\ [][NextProjects]_vars

(***************************************************************************)
(* Properties of the projects (checked under SpecProjects)                 *)
(***************************************************************************)
\* the ids of a list
IdsOf(project_ids) == {project_ids[i] : i \in 1..Len(project_ids)}

\* the tables are what they were before the request, but for the rows of the
\* projects with these ids
DeletedExactly(ids) ==
    /\ projects = {p \in before.projects : p.id \notin ids}
    /\ time_entries = {t \in before.time_entries : t.project_id \notin ids}
    /\ customer_report_notes = {n \in before.customer_report_notes : n.project_id \notin ids}
    /\ import_batches = before.import_batches

\* C17: every stored TimeEntry and every CustomerReportNote refers to an
\* existing Project, in every state reached by uploads, creates, updates,
\* status updates, notes, deletes and bulk deletes; a delete that succeeds
\* removes the project, all of its time entries and notes and nothing else,
\* and a bulk delete does so for each of its ids.
C17_ReferentialIntegrity ==
    /\ \A t \in time_entries : \E p \in projects : p.id = t.project_id
    /\ \A n \in customer_report_notes : \E p \in projects : p.id = n.project_id
    /\ request.op = "delete_project" /\ response.status = 204
          => /\ \E p \in before.projects : p.id = request.project_id
             /\ DeletedExactly({request.project_id})
    /\ request.op = "delete_project" /\ response.status # 204
          => DeletedExactly({})
    /\ request.op = "bulk_delete" => DeletedExactly(IdsOf(request.project_ids))

\* C17 witness: a project with a time entry and a note was deleted, and both
\* went with it
C17_Witness ==
    /\ request.op = "delete_project"
    /\ response.status = 204
    /\ \E t \in before.time_entries : t.project_id = request.project_id
    /\ \E n \in before.customer_report_notes : n.project_id = request.project_id
    /\ time_entries = {}
    /\ customer_report_notes = {}

\* the request reached create_project: its body passed the validation
CreateHandled == request.op = "create_project" /\ response.status # 422

\* a project with this project_id was stored before the request
StoredBefore(project_id) == \E p \in before.projects : p.project_id = project_id

\* C18: no two Projects share a project_id; create_project with a project_id
\* that is already stored answers 409 and changes nothing, with a new one it
\* adds one project; an upload leaves the stored projects as they are and
\* creates a Project only for a parsed project_id that was not stored, one
\* for each, and reports their number.
C18_UniqueProjectId ==
    /\ \A p, q \in projects : (p.project_id = q.project_id \/ p.id = q.id) => p = q
    /\ CreateHandled /\ StoredBefore(request.data.project_id[1])
          => /\ response.status = 409
             /\ Snapshot = before
    /\ CreateHandled /\ ~StoredBefore(request.data.project_id[1])
          => /\ response.status = 201
             /\ before.projects \subseteq projects
             /\ Cardinality(projects) = Cardinality(before.projects) + 1
             /\ \E p \in projects : p.project_id = request.data.project_id[1]
    /\ Accepted
          => LET stored  == {p.project_id : p \in before.projects}
                 parsed  == {result.projects[i].project_id : i \in 1..Len(result.projects)}
                 created == projects \ before.projects
             IN  /\ before.projects \subseteq projects
                 /\ {p.project_id : p \in created} = parsed \ stored
                 /\ response.projects_created = Cardinality(parsed \ stored)

\* C18 witness: a project created by an upload, then a create with its id
C18_Witness ==
    /\ CreateHandled
    /\ response.status = 409
    /\ \E p \in projects : p.project_id = request.data.project_id[1] /\ p.name # <<"A">>
    /\ import_batches # {}

\* C19 (as claimed): every Project's status is one of the three lifecycle
\* statuses, whichever of create_project, update_project, bulk_update_status
\* or upload_csv last wrote it.
C19_StatusInLifecycle ==
    \A p \in projects : p.status \in {STATUS_ACTIVE, STATUS_PAUSED, STATUS_COMPLETED}

\* the body sets a rate or amount below 0, or a bonus_rate outside [0, 1]
BodyOutOfRange(data) ==
    \/ \E k \in DOMAIN data \cap NonNegativeFields : data[k] # <<>> /\ data[k][1] < 0
    \/ /\ "bonus_rate" \in DOMAIN data
       /\ data.bonus_rate # <<>>
       /\ (data.bonus_rate[1] < 0 \/ data.bonus_rate[1] > 10000)

\* the body sets bonus_rate to null
BodyNullBonusRate(data) == "bonus_rate" \in DOMAIN data /\ data.bonus_rate = <<>>

\* C20: every Project's bonus_rate lies in [0, 1] and its hourly_rate,
\* onsite_hourly_rate, budget_hours and deal_value are each absent or >= 0; a
\* create or update whose body would violate this is rejected with 422 and
\* leaves the tables unchanged, and so does an update that sets bonus_rate to
\* null (it is answered 404 or 500); a project an upload creates has
\* bonus_rate 0.02.
C20_RatesInRange ==
    /\ \A p \in projects :
          /\ p.bonus_rate >= 0 /\ p.bonus_rate <= 10000
          /\ \A v \in {p.hourly_rate, p.onsite_hourly_rate, p.budget_hours, p.deal_value} :
                v = <<>> \/ v[1] >= 0
    /\ request.op \in {"create_project", "update_project"} /\ BodyOutOfRange(request.data)
          => /\ response.status = 422
             /\ Snapshot = before
    /\ request.op \in {"create_project", "update_project"} /\ BodyNullBonusRate(request.data)
          => /\ response.status \in {404, 422, 500}
             /\ Snapshot = before
    /\ Accepted => \A p \in projects \ before.projects : p.bonus_rate = 200

\* C20 witness: an update of a stored project with a bonus_rate below 0 was
\* rejected
C20_Witness ==
    /\ request.op = "update_project"
    /\ \E p \in projects : p.id = request.project_id
    /\ "bonus_rate" \in DOMAIN request.data
    /\ request.data.bonus_rate = <<-1>>
    /\ response.status = 422
    /\ Snapshot = before

\* a project with this primary key was stored before the request
KnownBefore(id) == \E p \in before.projects : p.id = id

\* the notes of a table that are not of this project and month
OtherNotes(notes, project_id, month) ==
    {n \in notes : ~(n.project_id = project_id /\ n.month = month)}

\* C23: there is at most one CustomerReportNote per project and month; an
\* upsert for an unknown project answers 404 and stores nothing; an upsert for
\* a known project adds a note when the pair has none and replaces the text
\* when it has one, touches nothing else, and the customer report of the pair
\* then returns the text just written; no request but an upsert or a delete
\* changes the notes.
C23_NoteUpsert ==
    /\ \A n1, n2 \in customer_report_notes :
          n1.project_id = n2.project_id /\ n1.month = n2.month => n1 = n2
    /\ request.op = "upsert_customer_note" /\ ~KnownBefore(request.project_id)
          => /\ response.status = 404
             /\ Snapshot = before
    /\ request.op = "upsert_customer_note" /\ KnownBefore(request.project_id)
          => /\ response.status = 200
             /\ get_customer_report(Tables, request.project_id, request.month)
                   = [status |-> 200, note |-> request.note]
             /\ Cardinality(customer_report_notes) =
                   Cardinality(OtherNotes(before.customer_report_notes,
                                          request.project_id, request.month)) + 1
             /\ OtherNotes(customer_report_notes, request.project_id, request.month)
                   = OtherNotes(before.customer_report_notes,
                                request.project_id, request.month)
             /\ projects = before.projects
             /\ time_entries = before.time_entries
             /\ import_batches = before.import_batches
    /\ request.op \notin {"upsert_customer_note", "delete_project", "bulk_delete"}
          => customer_report_notes = before.customer_report_notes

\* C23 witness: the second upsert for a project and month that had the note
\* "x" wrote "y"
C23_Witness ==
    /\ request.op = "upsert_customer_note"
    /\ response.status = 200
    /\ request.note = "y"
    /\ \E n \in before.customer_report_notes :
          n.project_id = request.project_id /\ n.month = request.month /\ n.note = "x"
    /\ Cardinality(customer_report_notes) = 1
    /\ get_customer_report(Tables, request.project_id, request.month).note = "y"

\* the columns of a Project a ProjectUpdate body can name
UpdatableFields ==
    {"name", "client", "deal_value", "budget_hours", "hourly_rate", "bonus_rate",
     "status", "onsite_hourly_rate"}

\* the project holds the body's value v in column k (a column that is NOT NULL
\* cannot hold a null)
Applied(project, k, v) ==
    IF v = Null THEN k \notin NotNullFields /\ project[k] = Null
    ELSE project[k] = column_value(k, v)

\* C24: update_project (the body has passed validation) answers 404 for an
\* unknown id and changes nothing; for a known id the project then holds the
\* body's value in every field the body names and its old value in every other
\* field, and every other project, the time entries, the notes and the import
\* batches are as before.
C24_UpdateAppliesPresentFields ==
    /\ request.op = "update_project" /\ response.status # 422
          /\ ~KnownBefore(request.project_id)
          => /\ response.status = 404
             /\ Snapshot = before
    /\ request.op = "update_project" /\ response.status # 422
          /\ KnownBefore(request.project_id)
          => /\ time_entries = before.time_entries
             /\ customer_report_notes = before.customer_report_notes
             /\ import_batches = before.import_batches
             /\ {p \in projects : p.id # request.project_id}
                   = {p \in before.projects : p.id # request.project_id}
             /\ \E old \in before.projects, new \in projects :
                   /\ old.id = request.project_id /\ new.id = request.project_id
                   /\ new.project_id = old.project_id
                   /\ \A k \in UpdatableFields :
                         IF k \in DOMAIN request.data
                         THEN Applied(new, k, request.data[k])
                         ELSE new[k] = old[k]

(***************************************************************************)
(* Two uploads in flight (routers/imports.py, database.py).  Every request *)
(* has a session of its own (get_db); the handler gives way to the other   *)
(* request at each await.  The database is the SQLite file of config.py:   *)
(* a query outside a write transaction reads the committed tables, the     *)
(* first INSERT of a session opens its write transaction, and only one     *)
(* session at a time can be in a write transaction; an INSERT that finds   *)
(* the database locked waits, and fails when the wait times out.           *)
(***************************************************************************)
Uploaders == {1, 2}

\* the files the two requests upload (both upload the same one)
ConcurrentContents ==
    {<<FullHeader, RowA>>, <<FullHeader, RowA, RowB>>, <<FullHeader, RowA, RowC>>}

ConcurrentFilename == <<"a", ".", "c", "s", "v">>

\* project "1" as POST /api/projects stored it before the uploads
ConcurrentProject ==
    [project_of([project_id |-> <<<<"1">>>>, name |-> <<<<"A">>>>, client |-> <<<<"C">>>>,
                 hourly_rate |-> <<120>>])
        EXCEPT !.id = 1]

\* a request whose handler has not run yet
NewSession ==
    [pc |-> "start", db |-> Session(EmptyTables), writing |-> FALSE, i |-> 1, created |-> 0,
     project_map |-> <<>>, batch_id |-> 0, imported |-> 0, response |-> NoResponse,
     parsed |-> EmptyResult]

\* some other request is in a write transaction
locked_by_other(p) == \E q \in Uploaders \ {p} : sessions[q].writing

\* the session of request p as its next statement finds it: its own
\* transaction when it is writing, else the committed tables and its pending
\* objects
view(p) ==
    IF sessions[p].writing THEN sessions[p].db
    ELSE [Session(Tables) EXCEPT !.new = sessions[p].db.new]

\* a flush of this session has objects to INSERT
needs_write(db) == Len(db.new) > 0

\* an INSERT of the flush fails on the unique index of projects.project_id
violates_unique(db) ==
    \E k \in 1..Len(db.new) :
        /\ db.new[k].table = "projects"
        /\ \E r \in db.projects : r.project_id = db.new[k].row.project_id

\* the request of p ends in an exception: its session is closed without a
\* commit, its transaction rolled back
failed(p, status) ==
    [sessions EXCEPT ![p] = [NewSession EXCEPT !.pc = "done", !.response = HttpError(status)]]

\* the tables, the file and the request stay as they are
SameStore ==
    UNCHANGED <<content, result, projects, time_entries, import_batches,
                customer_report_notes, args, returned, request, response, before,
                uploaded, n_requests>>

\* what a session keeps between two statements: outside a write transaction
\* only its pending objects
kept(db, writing) == IF writing THEN db ELSE [Session(EmptyTables) EXCEPT !.new = db.new]

\* upload_csv up to the first await of the database: the file is parsed
StartUpload(p) ==
    /\ sessions[p].pc = "start"
    /\ SameStore
    /\ \E parsed \in {parse_csv(content)} :
          sessions' =
             IF parsed.raised # "" THEN failed(p, 500)
             ELSE IF Len(parsed.entries) = 0 THEN failed(p, 400)
             ELSE [sessions EXCEPT ![p] = [@ EXCEPT !.parsed = parsed, !.pc = "ensure"]]

\* _ensure_projects: one iteration, the SELECT with its autoflush and db.add
EnsureProject(p) ==
    /\ sessions[p].pc = "ensure"
    /\ SameStore
    /\ \E parsed \in {sessions[p].parsed}, v \in {view(p)} :
          /\ needs_write(v) => ~locked_by_other(p)
          /\ IF needs_write(v) /\ violates_unique(v)
             THEN sessions' = failed(p, 500)
             ELSE \E writing \in {sessions[p].writing \/ needs_write(v)} :
                  \E s \in {ensure_project(parsed.projects[sessions[p].i], execute(v),
                                           sessions[p].created)} :
                     sessions' = [sessions EXCEPT ![p] =
                        [@ EXCEPT !.db = kept(s.db, writing),
                                  !.created = s.created,
                                  !.writing = writing,
                                  !.i = IF @ < Len(parsed.projects) THEN @ + 1 ELSE 1,
                                  !.pc = IF sessions[p].i < Len(parsed.projects)
                                         THEN "ensure" ELSE "ensure_flush"]]

\* _ensure_projects: await db.flush()
FlushProjects(p) ==
    /\ sessions[p].pc = "ensure_flush"
    /\ SameStore
    /\ \E v \in {view(p)} :
          /\ needs_write(v) => ~locked_by_other(p)
          /\ IF needs_write(v) /\ violates_unique(v)
             THEN sessions' = failed(p, 500)
             ELSE \E writing \in {sessions[p].writing \/ needs_write(v)} :
                     sessions' = [sessions EXCEPT ![p] =
                        [@ EXCEPT !.db = kept(flush(v), writing),
                                  !.writing = writing,
                                  !.pc = "map"]]

\* _build_project_map
BuildProjectMap(p) ==
    /\ sessions[p].pc = "map"
    /\ SameStore
    /\ \E v \in {view(p)} :
          sessions' = [sessions EXCEPT ![p] =
             [@ EXCEPT !.project_map = build_project_map(v), !.pc = "batch"]]

\* batch = ImportBatch(...); db.add(batch); await db.flush(): the INSERT opens
\* the write transaction unless the session is in one
FlushBatch(p) ==
    /\ sessions[p].pc = "batch"
    /\ SameStore
    /\ ~locked_by_other(p)
    /\ \E with_batch \in {add_batch(view(p), ConcurrentFilename)} :
          sessions' = [sessions EXCEPT ![p] =
             [@ EXCEPT !.db = with_batch,
                       !.writing = TRUE,
                       !.batch_id = batch_id_of(with_batch),
                       !.pc = "loop"]]

\* one iteration of the for loop of upload_csv
ImportEntry(p) ==
    /\ sessions[p].pc = "loop"
    /\ SameStore
    /\ \E parsed \in {sessions[p].parsed}, v \in {sessions[p].db} :
       \E entry \in {parsed.entries[sessions[p].i]} :
       \E s \in {import_entry(entry, sessions[p].project_map, sessions[p].batch_id,
                              IF entry.project_id \in DOMAIN sessions[p].project_map
                              THEN execute(v) ELSE v,
                              sessions[p].imported)} :
          sessions' = [sessions EXCEPT ![p] =
             [@ EXCEPT !.db = s.db,
                       !.imported = s.imported,
                       !.i = IF @ < Len(parsed.entries) THEN @ + 1 ELSE 1,
                       !.pc = IF sessions[p].i < Len(parsed.entries)
                              THEN "loop" ELSE "commit"]]

\* batch.row_count = imported; await db.commit(); return ImportResult(...)
CommitUpload(p) ==
    /\ sessions[p].pc = "commit"
    /\ \E committed \in {flush(sessions[p].db)} :
          /\ projects' = committed.projects
          /\ time_entries' = committed.time_entries
          /\ import_batches' =
                set_row_count(committed.import_batches, sessions[p].batch_id,
                              sessions[p].imported)
          /\ sessions' = [sessions EXCEPT ![p] =
                [NewSession EXCEPT
                    !.pc = "done",
                    !.response = ImportResult(sessions[p].batch_id, sessions[p].imported,
                                              sessions[p].created)]]
    /\ UNCHANGED <<content, result, customer_report_notes, args, returned, request,
                   response, before, uploaded, n_requests>>

\* an INSERT waited for the other session's transaction until the driver's
\* timeout: "database is locked"
LockTimeout(p) ==
    /\ locked_by_other(p)
    /\ \/ sessions[p].pc = "batch"
       \/ sessions[p].pc \in {"ensure", "ensure_flush"} /\ needs_write(view(p))
    /\ SameStore
    /\ sessions' = failed(p, 500)

InitConcurrent ==
    /\ content \in ConcurrentContents
    /\ result = EmptyResult
    /\ projects \in {{}, {ConcurrentProject}}
    /\ time_entries = {} /\ import_batches = {}
    /\ customer_report_notes = {}
    /\ args = NoCall /\ returned = <<>>
    /\ request = [op |-> "upload_csv", filename |-> ConcurrentFilename]
    /\ response = NoResponse
    /\ before = [EmptySnapshot EXCEPT !.projects = projects]
    /\ uploaded = {}
    /\ n_requests = 2
    /\ sessions = [p \in Uploaders |-> NewSession]

NextConcurrent ==
    \E p \in Uploaders :
       \/ StartUpload(p)
       \/ EnsureProject(p)
       \/ FlushProjects(p)
       \/ BuildProjectMap(p)
       \/ FlushBatch(p)
       \/ ImportEntry(p)
       \/ CommitUpload(p)
       \/ LockTimeout(p)

SpecConcurrent == InitConcurrent /\ [][NextConcurrent]_vars

(***************************************************************************)
(* Properties of two uploads in flight (checked under SpecConcurrent)      *)
(***************************************************************************)
\* upload_csv run alone on the tables, from the commit back to the parse:
\* the tables it leaves and its response
serial_commit(tables, ensured, batch_id, looped) ==
    CHOOSE r \in {[tables |->
                      [projects |-> committed.projects,
                       time_entries |-> committed.time_entries,
                       import_batches |->
                          set_row_count(committed.import_batches, batch_id, looped.imported),
                       customer_report_notes |-> tables.customer_report_notes],
                   response |-> ImportResult(batch_id, looped.imported, ensured.created)] :
                     committed \in {flush(looped.db)}} : TRUE

serial_loop(tables, parsed, ensured, with_batch) ==
    CHOOSE r \in {serial_commit(tables, ensured, batch_id_of(with_batch), looped) :
                     looped \in {import_entries(parsed.entries, 1, build_project_map(ensured.db),
                                                batch_id_of(with_batch), with_batch, 0)}} : TRUE

serial_batch(tables, filename, parsed, ensured) ==
    CHOOSE r \in {serial_loop(tables, parsed, ensured, with_batch) :
                     with_batch \in {add_batch(execute(ensured.db), filename)}} : TRUE

serial_ensure(tables, filename, parsed) ==
    IF parsed.raised # "" THEN [tables |-> tables, response |-> HttpError(500)]
    ELSE IF Len(parsed.entries) = 0 THEN [tables |-> tables, response |-> HttpError(400)]
    ELSE CHOOSE r \in {serial_batch(tables, filename, parsed, ensured) :
                          ensured \in {ensure_projects(parsed.projects, 1, Session(tables), 0)}} :
            TRUE

SerialUpload(tables, filename, text) ==
    IF ~valid_filename(filename) THEN [tables |-> tables, response |-> HttpError(400)]
    ELSE CHOOSE r \in {serial_ensure(tables, filename, parsed) :
                          parsed \in {parse_csv(text)}} : TRUE

\* the tables before the last request (before the two uploads, in SpecConcurrent)
TablesBefore ==
    [projects |-> before.projects, time_entries |-> before.time_entries,
     import_batches |-> before.import_batches,
     customer_report_notes |-> before.customer_report_notes]

\* SerialUpload is the upload of Spec and SpecProjects
SerialUploadIsUpload ==
    Uploading =>
        SerialUpload(TablesBefore, request.filename, content)
           = [tables |-> Tables, response |-> response]

\* both requests have been answered
AllDone == \A p \in Uploaders : sessions[p].pc = "done"

\* the tables and the two responses are those of the upload of first followed
\* by the upload of second
SerialOrder(first, second) ==
    \E r1 \in {SerialUpload(TablesBefore, ConcurrentFilename, content)} :
    \E r2 \in {SerialUpload(r1.tables, ConcurrentFilename, content)} :
        /\ Tables = r2.tables
        /\ sessions[first].response = r1.response
        /\ sessions[second].response = r2.response

\* C25: while two uploads of the same file are in flight no two stored
\* TimeEntries agree on (project, employee, date, duration), and once both are
\* answered the tables and the responses are those of one of the two serial
\* orders.
C25_ConcurrentUploadsSerial ==
    /\ \A t1, t2 \in time_entries : Key(t1) = Key(t2) => t1 = t2
    /\ AllDone => SerialOrder(1, 2) \/ SerialOrder(2, 1)

(***************************************************************************)
(* Properties of uploads among the other requests (checked under           *)
(* SpecProjects)                                                           *)
(***************************************************************************)
\* C26: an upload leaves every project that was stored before it exactly as it
\* was (name, client, rates, bonus_rate and status included), whatever name
\* and client the file gives for its project_id, and reports projects_updated
\* 0.
C26_UploadKeepsProjects ==
    Uploading =>
        /\ before.projects \subseteq projects
        /\ \A p \in projects \ before.projects :
              \A b \in before.projects : b.id # p.id /\ b.project_id # p.project_id
        /\ response.projects_updated = 0

\* C26 witness: an accepted upload whose file names a stored project with
\* another name and another client
C26_Witness ==
    /\ Accepted
    /\ \E b \in before.projects :
          /\ b \in projects
          /\ b.hourly_rate = Null /\ b.bonus_rate = BonusRateOne
          /\ \E j \in 1..Len(result.projects) :
                /\ result.projects[j].project_id = b.project_id
                /\ result.projects[j].name # b.name
                /\ result.projects[j].client # b.client

\* the hourly rate of a project, 0 when it has none
RateOrZero(project) == IF project.hourly_rate = Null THEN 0 ELSE project.hourly_rate[1]

\* C27: every stored TimeEntry has is_onsite false; only an upload adds
\* entries, only a delete or bulk delete removes entries, and then only those
\* of the projects it removes, and every entry that stays is unchanged; so the
\* on-site hours of every aggregation are 0, and the bonus of every project is
\* total_hours * hourly_rate * bonus_rate rounded to cents (hourly_rate 0 when
\* the project has none).
C27_EntriesImmutableAndRemote ==
    /\ \A t \in time_entries : ~t.is_onsite
    /\ request.op # "upload_csv" => time_entries \subseteq before.time_entries
    /\ request.op \notin {"delete_project", "bulk_delete"}
          => before.time_entries \subseteq time_entries
    /\ request.op \in {"delete_project", "bulk_delete"}
          => time_entries =
                {t \in before.time_entries : \E p \in projects : p.id = t.project_id}
    /\ \A p \in projects, f \in HourFilters :
          get_hours_by_project(time_entries, <<p.id>>, f)[p.id][2] = 0
    /\ \A p \in projects :
          LET report == get_project(Tables, p)
          IN  /\ report.onsite_hours = 0
              /\ report.total_hours =
                    sum_duration({t \in time_entries : t.project_id = p.id})
              /\ report.bonus_amount =
                    Round2(report.total_hours * RateOrZero(p) * p.bonus_rate)

\* C27 witness: a project with stored hours was given an hourly rate and an
\* on-site rate, and its bonus is not 0
C27_Witness ==
    /\ request.op = "update_project"
    /\ response.status = 200
    /\ \E p \in projects :
          /\ p.hourly_rate # Null /\ p.onsite_hourly_rate # Null
          /\ get_project(Tables, p).total_hours > 0
          /\ 0 \notin get_project(Tables, p).bonus_amount

(***************************************************************************)
(* The finance figures: routers/exports.py (_build_finance_data) and       *)
(* routers/reports.py (get_finance_report, _finance_for_month).  Lists     *)
(* that come from a SELECT without ORDER BY are sets.                      *)
(***************************************************************************)
\* f"{month:02d}"
TwoDigits(n) == IF n < 10 THEN <<"0", DigitChar(n)>> ELSE NatDigits(n)

\* _build_finance_data: month_condition; month is Null or <<number>>, and
\* "if month" takes 0 for no month
month_condition(year, month) ==
    IF month # Null /\ month[1] # 0
    THEN [kind |-> "month_eq", value |-> NatDigits(year) \o <<"-">> \o TwoDigits(month[1])]
    ELSE [kind |-> "month_startswith", value |-> NatDigits(year)]

\* mutant of export_hours: the on-site entries are counted as remote
export_hours_all_remote(rows, project_db_id, condition) ==
    <<sum_duration({t \in rows : t.project_id = project_db_id /\ satisfies(t, condition)}), 0>>

\* _build_finance_data: remote_h and onsite_h of one project, the two
\* coalesce(sum(duration_decimal), 0.0) queries
export_hours(rows, project_db_id, condition) ==
    <<sum_duration({t \in rows : /\ t.project_id = project_db_id
                                 /\ satisfies(t, condition)
                                 /\ t.is_onsite = FALSE}),
      sum_duration({t \in rows : /\ t.project_id = project_db_id
                                 /\ satisfies(t, condition)
                                 /\ t.is_onsite = TRUE})>>

\* _build_finance_data: the dict of one project; id, remote_h and onsite_h are
\* the locals the dict is computed from
finance_data_of(project, hours) ==
    [id                 |-> project.id,
     remote_h           |-> hours[1],
     onsite_h           |-> hours[2],
     project_name       |-> project.name,
     client             |-> project.client,
     hourly_rate        |-> project.hourly_rate,
     onsite_hourly_rate |-> project.onsite_hourly_rate,
     bonus_rate         |-> project.bonus_rate,
     total_hours        |-> hours[1] + hours[2],
     total_bonus        |-> calculate_bonus(hours[1], hours[2], project.hourly_rate,
                                            project.onsite_hourly_rate, project.bonus_rate)]

\* _build_finance_data
build_finance_data(tables, year, month) ==
    LET condition      == month_condition(year, month)
        project_db_ids == {t.project_id :
                              t \in {x \in tables.time_entries : satisfies(x, condition)}}
    IN  {finance_data_of(project,
                         export_hours(tables.time_entries, project.id, condition)) :
            project \in {p \in tables.projects : p.id \in project_db_ids}}

RECURSIVE SeqOf(_)
\* the elements of a set as a list
SeqOf(S) ==
    IF S = {} THEN <<>>
    ELSE LET x == CHOOSE y \in S : TRUE IN <<x>> \o SeqOf(S \ {x})

\* _finance_for_month: the MonthlyProjectReport of one project; id is the
\* key of the loop
monthly_project_report(project, month, hours) ==
    [id                 |-> project.id,
     project_id         |-> project.project_id,
     project_name       |-> project.name,
     client             |-> project.client,
     month              |-> month,
     total_hours        |-> hours[1] + hours[2],
     remote_hours       |-> hours[1],
     onsite_hours       |-> hours[2],
     hourly_rate        |-> project.hourly_rate,
     onsite_hourly_rate |-> project.onsite_hourly_rate,
     bonus_rate         |-> project.bonus_rate,
     bonus_amount       |-> calculate_bonus(hours[1], hours[2], project.hourly_rate,
                                            project.onsite_hourly_rate, project.bonus_rate)]

RECURSIVE sum_hours(_)
\* total_hours += h over the project reports
sum_hours(reports) ==
    IF reports = {} THEN 0
    ELSE LET r == CHOOSE x \in reports : TRUE
         IN  r.total_hours + sum_hours(reports \ {r})

RECURSIVE sum_bonus(_)
\* total_bonus += bonus over the project reports: the sums the amounts
\* calculate_bonus can return add up to
sum_bonus(reports) ==
    IF reports = {} THEN {0}
    ELSE LET r == CHOOSE x \in reports : TRUE
         IN  {b + s : b \in r.bonus_amount, s \in sum_bonus(reports \ {r})}

\* _finance_for_month: (project_reports, total_hours, total_bonus)
finance_for_month(tables, month) ==
    LET project_db_ids == {t.project_id :
                              t \in {x \in tables.time_entries : x.month = month}}
    IN  IF project_db_ids = {}
        THEN [project_reports |-> {}, total_hours |-> 0, total_bonus |-> {0}]
        ELSE CHOOSE r \in
                {[project_reports |-> reports,
                  total_hours     |-> sum_hours(reports),
                  total_bonus     |-> sum_bonus(reports)] :
                    reports \in
                      {{monthly_project_report(project, month, hours_map[project.id]) :
                           project \in {p \in tables.projects : p.id \in project_db_ids}} :
                         hours_map \in
                           {get_hours_by_project(tables.time_entries, SeqOf(project_db_ids),
                               <<[kind |-> "month_eq", value |-> month]>>)}}} : TRUE


\* the byte of a character a month key is made of
CharCode(c) == IF c = "-" THEN 45 ELSE 48 + DigitVal(c)

RECURSIVE text_less(_, _)
\* a < b for two texts in SQLite's BINARY collation: byte by byte, a prefix
\* before the longer text
text_less(a, b) ==
    IF b = <<>> THEN FALSE
    ELSE IF a = <<>> THEN TRUE
    ELSE IF CharCode(a[1]) # CharCode(b[1]) THEN CharCode(a[1]) < CharCode(b[1])
    ELSE text_less(Tail(a), Tail(b))

RECURSIVE order_by(_)
\* ORDER BY TimeEntry.month over the distinct months
order_by(months) ==
    IF months = {} THEN <<>>
    ELSE LET first == CHOOSE m \in months : \A o \in months \ {m} : text_less(m, o)
         IN  <<first>> \o order_by(months \ {first})

\* get_finance_report: the months that start with str(year)
months_of_year(rows, year) ==
    order_by({t.month : t \in {x \in rows :
                 satisfies(x, [kind |-> "month_startswith", value |-> NatDigits(year)])}})

\* get_finance_report: the FinanceReportResponse of one month
finance_report_response(tables, month) ==
    CHOOSE r \in {[month       |-> month,
                   projects    |-> f.project_reports,
                   total_hours |-> f.total_hours,
                   total_bonus |-> f.total_bonus] :
                     f \in {finance_for_month(tables, month)}} : TRUE

\* get_finance_report
get_finance_report(tables, year) ==
    CHOOSE reports \in
        {[i \in 1..Len(months) |-> finance_report_response(tables, months[i])] :
            months \in {months_of_year(tables.time_entries, year)}} : TRUE

\* the rows the tables of SpecFinance are made of: the rows of SpecHours and
\* one entry of December 2025
FinanceRows ==
    HourRows \cup
    {[HourRow(7, 1, StrftimeMonth(<<2025, 12, 1>>), FALSE, 100) EXCEPT !.date = <<2025, 12, 1>>]}

\* the two projects of the entries: project 1 with both rates, project 2 with
\* no on-site rate
FinanceProjects ==
    {[project_of([project_id |-> <<<<"1">>>>, name |-> <<<<"A">>>>, client |-> <<<<"C">>>>,
                  hourly_rate |-> <<120>>, onsite_hourly_rate |-> <<150>>])
         EXCEPT !.id = 1],
     [project_of([project_id |-> <<<<"2">>>>, name |-> <<<<"B">>>>, client |-> <<<<"C">>>>,
                  hourly_rate |-> <<150>>])
         EXCEPT !.id = 2]}

\* the year and month query parameters: a month is Null or <<number>>
FinanceYears == {2026, 2025, 2020, 202}

FinanceMonths == {Null, <<0>>, <<2>>, <<3>>, <<12>>}

InitFinance ==
    /\ time_entries \in SUBSET FinanceRows
    /\ projects = FinanceProjects
    /\ args \in {[op |-> "finance", year |-> y, month |-> m] :
                     y \in FinanceYears, m \in FinanceMonths}
    /\ returned = <<>>
    /\ content = <<>>
    /\ result = EmptyResult
    /\ import_batches = {}
    /\ customer_report_notes = {}
    /\ request = NoRequest
    /\ response = NoResponse
    /\ before = EmptySnapshot
    /\ uploaded = {}
    /\ n_requests = 0
    /\ sessions = NoSessions

\* the tables a finance handler reads
FinanceTables == [projects |-> projects, time_entries |-> time_entries]

\* a call has returned
Called(op) == \E i \in 1..Len(returned) : returned[i].op = op

\* what that call returned
ReturnedBy(op) == returned[CHOOSE i \in 1..Len(returned) : returned[i].op = op].value

\* GET /api/exports/finance?year=&month=: the data the file is written from
BuildFinanceData ==
    /\ args.op = "finance"
    /\ ~Called("build_finance_data")
    /\ returned' = Append(returned,
          [op    |-> "build_finance_data",
           value |-> build_finance_data(FinanceTables, args.year, args.month)])
    /\ UNCHANGED <<sessions, content, result, projects, time_entries, import_batches,
                   customer_report_notes, args, request, response, before,
                   uploaded, n_requests>>

\* _finance_for_month for the month the export filters by
FinanceForMonth ==
    /\ args.op = "finance"
    /\ args.month # Null /\ args.month[1] # 0
    /\ ~Called("finance_for_month")
    /\ returned' = Append(returned,
          [op    |-> "finance_for_month",
           value |-> finance_for_month(FinanceTables,
                                       month_condition(args.year, args.month).value)])
    /\ UNCHANGED <<sessions, content, result, projects, time_entries, import_batches,
                   customer_report_notes, args, request, response, before,
                   uploaded, n_requests>>

\* GET /api/reports/finance?year=
GetFinanceReport ==
    /\ args.op = "finance"
    /\ ~Called("get_finance_report")
    /\ returned' = Append(returned,
          [op    |-> "get_finance_report",
           value |-> get_finance_report(FinanceTables, args.year)])
    /\ UNCHANGED <<sessions, content, result, projects, time_entries, import_batches,
                   customer_report_notes, args, request, response, before,
                   uploaded, n_requests>>

NextFinance == BuildFinanceData \/ FinanceForMonth \/ GetFinanceReport

SpecFinance == InitFinance /\ [][NextFinance]_vars


\* C29: the two finance paths agree.  For every store and every month, the
\* export path (_build_finance_data with its two sum queries per project) and
\* the report path (_finance_for_month with the one grouped
\* get_hours_by_project) cover the same set of projects, and for each project
\* they compute the same remote hours, the same on-site hours and the same
\* bonus.
C29_FinancePathsAgree ==
    (Called("build_finance_data") /\ Called("finance_for_month")) =>
        LET export == ReturnedBy("build_finance_data")
            report == ReturnedBy("finance_for_month").project_reports
        IN  /\ {d.id : d \in export} = {r.id : r \in report}
            /\ \A d \in export, r \in report :
                  d.id = r.id =>
                     /\ d.remote_h = r.remote_hours
                     /\ d.onsite_h = r.onsite_hours
                     /\ d.total_hours = r.total_hours
                     /\ d.total_bonus = r.bonus_amount

\* both paths have run for February 2026 on a store where project 1 has
\* remote and on-site hours in that month and project 2 has entries too
C29_Witness ==
    /\ Called("build_finance_data") /\ Called("finance_for_month")
    /\ args.year = 2026 /\ args.month = <<2>>
    /\ Cardinality(ReturnedBy("build_finance_data")) = 2
    /\ \E d \in ReturnedBy("build_finance_data") :
          d.id = 1 /\ d.remote_h = 450 /\ d.onsite_h = 200 /\ d.total_bonus = {1680}
    /\ \E r \in ReturnedBy("finance_for_month").project_reports :
          r.id = 1 /\ r.remote_hours = 450 /\ r.onsite_hours = 200


\* the year a month key names: the text before its "-"
YearOfMonth(month) ==
    SubSeq(month, 1, (CHOOSE i \in 1..Len(month) : month[i] = "-" /\ \A j \in 1..(i - 1) : month[j] # "-") - 1)

\* the months of the year asked for that have a stored time entry
StoredMonthsOf(year) ==
    {t.month : t \in {x \in time_entries : YearOfMonth(x.month) = NatDigits(year)}}

\* C30: get_finance_report(year) returns one element for each month of that
\* year that has a stored time entry, in ascending order of the month, and no
\* element for any other month (the empty list when the year has no entry);
\* the total_hours of an element is the sum of the durations of all stored
\* entries of its month and its total_bonus is the sum of the bonuses of its
\* projects.
C30_FinanceReportOfYear ==
    Called("get_finance_report") =>
        LET reports == ReturnedBy("get_finance_report")
        IN  /\ {reports[i].month : i \in 1..Len(reports)} = StoredMonthsOf(args.year)
            /\ Len(reports) = Cardinality(StoredMonthsOf(args.year))
            /\ \A i, j \in 1..Len(reports) :
                  i < j => text_less(reports[i].month, reports[j].month)
            /\ \A i \in 1..Len(reports) :
                  /\ reports[i].total_hours =
                        sum_duration({t \in time_entries : t.month = reports[i].month})
                  /\ reports[i].total_bonus = sum_bonus(reports[i].projects)
====
